---- MODULE Spec2Model ----
(***************************************************************************)
(* Query routing and quiz lifecycle engine of the khkt-rag assistant:      *)
(* SimpleAgent.query (src/query.py), the Quiz Ledger (QuizStorage), the     *)
(* Submission Grader (SubmissionManager), the Quiz Guard and the REST       *)
(* submit endpoint, over the two SQLite tables quizzes and submissions.     *)
(*                                                                         *)
(* Text.  A message is a record [words, pairs]: the words of the text in   *)
(* order, followed by its list of "number-letter" answer pairs.  Words are  *)
(* written in ASCII with the Telex spelling of the Vietnamese letters      *)
(* (nộp bài = "nopj baif", tạo đề = "taoj ddeef", đồ thị = "ddoof thij",    *)
(* kiểm tra = "kieerm tra", câu = "caau", lịch sử = "lichj suwr").  The     *)
(* keyword lists of the source are kept for the keywords whose words occur  *)
(* in the messages of Messages: a keyword with any other word cannot occur  *)
(* in these messages.                                                      *)
(***************************************************************************)
EXTENDS Integers, Sequences, FiniteSets, TLC

VARIABLES
    quizzes,      \* table quizzes, in insertion (= date) order; a quiz id is its index
    submissions,  \* table submissions, in insertion order
    req,          \* the request processed last
    env,          \* what the collaborators answered during that request
    resp,         \* the response returned for it
    calls,        \* the collaborators called for it, in call order
    procs         \* concurrent requests in flight (SpecConc only)

vars == <<quizzes, submissions, req, env, resp, calls, procs>>

(***************************************************************************)
(* Bounds of the model and constants of the program                        *)
(***************************************************************************)
MaxQuizzes == 2
MaxSubmissions == 2

RequiredAnswers == 10
MinPatternPairs == 5
MinTopicLen == 3

Students == {"s1", "s2"}
Procs == {"p1", "p2"}

NULL == "None"

Truthy(x) == x # NULL /\ x # ""

Max(S) == CHOOSE x \in S : \A y \in S : y <= x

(***************************************************************************)
(* Text helpers                                                            *)
(***************************************************************************)
\* str.lower() on the words of the vocabulary
Lower(w) ==
    CASE w = "Nopj" -> "nopj"
      [] w = "Taoj" -> "taoj"
      [] w = "Xem"  -> "xem"
      [] w = "Caau" -> "caau"
      [] w = "CAAU" -> "caau"
      [] w = "Chonj" -> "chonj"
      [] w = "Gen"  -> "gen"
      [] w = "**Caau" -> "**caau"
      [] w = "**A.**" -> "**a.**"
      [] w = "A"    -> "a"
      [] w = "B"    -> "b"
      [] w = "C"    -> "c"
      [] w = "D"    -> "d"
      [] w = "A."   -> "a."
      [] w = "B."   -> "b."
      [] w = "C."   -> "c."
      [] w = "D."   -> "d."
      [] w = "V"    -> "v"
      [] OTHER      -> w

\* str.upper() on the words of the vocabulary
Upper(w) ==
    CASE w = "a"  -> "A"
      [] w = "b"  -> "B"
      [] w = "c"  -> "C"
      [] w = "d"  -> "D"
      [] w = "a." -> "A."
      [] w = "b." -> "B."
      [] w = "c." -> "C."
      [] w = "d." -> "D."
      [] w = "n"  -> "N"
      [] w = "h"  -> "H"
      [] w = "u"  -> "U"
      [] w = "v"  -> "V"
      [] w = "af" -> "AF"
      [] OTHER    -> w

LowerWords(ws) == [i \in DOMAIN ws |-> Lower(ws[i])]

\* `kw in text` for a keyword made of whole words
Contains(ws, kw) ==
    \E i \in 1..(Len(ws) - Len(kw) + 1) : SubSeq(ws, i, i + Len(kw) - 1) = kw

ContainsAny(ws, kws) == \E kw \in kws : Contains(ws, kw)

\* \d+ matches the whole word
IsNumber(w) == w \in {"3"}

(***************************************************************************)
(* Answer lists and answer keys: sequences of <<number, letter>>, the      *)
(* number as the digit string written ("1-A,2-B,...")                      *)
(***************************************************************************)
Key1 ==
    << <<"1", "A">>, <<"2", "B">>, <<"3", "C">>, <<"4", "D">>, <<"5", "A">>,
       <<"6", "B">>, <<"7", "C">>, <<"8", "D">>, <<"9", "A">>, <<"10", "B">> >>

\* ten pairs as a student types them: lower-case letters, three wrong answers
AnsMixed ==
    << <<"1", "a">>, <<"2", "b">>, <<"3", "D">>, <<"4", "d">>, <<"5", "B">>,
       <<"6", "b">>, <<"7", "c">>, <<"8", "A">>, <<"9", "a">>, <<"10", "b">> >>

Ans9 == SubSeq(Key1, 1, 9)
NoPairs == << >>

(***************************************************************************)
(* The messages students send                                              *)
(***************************************************************************)
Messages ==
    << [words |-> <<"Nopj", "baif">>, pairs |-> Key1],               \* Nộp bài: 1-A,...,10-B
       [words |-> << >>, pairs |-> AnsMixed],                          \* 1-a,2-b,... (bare answers)
       [words |-> <<"nopj", "baif">>, pairs |-> Ans9],                \* nộp bài: nine answers
       [words |-> <<"nopj", "baif", "kieerm", "tra">>, pairs |-> NoPairs], \* nộp bài kiểm tra
       [words |-> <<"Xem", "laij", "ddeef">>, pairs |-> NoPairs],     \* Xem lại đề
       [words |-> <<"Taoj", "ddeef", "ddoof", "thij">>, pairs |-> NoPairs], \* Tạo đề đồ thị
       [words |-> <<"vex", "ddoof", "thij">>, pairs |-> NoPairs],     \* vẽ đồ thị
       [words |-> <<"Caau", "3">>, pairs |-> NoPairs],                \* Câu 3
       [words |-> <<"gen", "laf", "gif">>, pairs |-> NoPairs],        \* gen là gì (a quiz question)
       [words |-> <<"lichj", "suwr">>, pairs |-> NoPairs],            \* lịch sử
       [words |-> <<"adn">>, pairs |-> NoPairs],                      \* adn
       [words |-> <<"xem", "ddeef", "kieerm", "tra">>, pairs |-> NoPairs] >> \* xem đề kiểm tra

MsgIds == DOMAIN Messages

(***************************************************************************)
(* Intent detection of SimpleAgent                                         *)
(***************************************************************************)
submission_keywords ==
    { <<"nopj", "baif">>, <<"nopj", "ddeef">>, <<"nopj">>, <<"submit">>, <<"answer">> }

_should_submit_quiz(text) ==
    \/ ContainsAny(LowerWords(text.words), submission_keywords)
    \/ Len(text.pairs) >= MinPatternPairs

view_keywords ==
    { <<"xem", "laij", "ddeef">>, <<"nhawcs", "laij", "ddeef">>, <<"xem", "ddeef">>,
      <<"ddeef", "naof">>, <<"ddeef", "gif">>, <<"show", "quiz">>, <<"view", "quiz">>,
      <<"xem", "baif">>, <<"xem", "laij", "baif">> }

_should_view_quiz(text) == ContainsAny(LowerWords(text.words), view_keywords)

quiz_keywords ==
    { <<"taoj", "ddeef">>, <<"ra", "ddeef">>, <<"ddeef", "thi">>, <<"baif", "kieerm", "tra">>,
      <<"quiz">>, <<"test">>, <<"kieerm", "tra">>, <<"baif", "thi">>,
      <<"taoj", "baif">>, <<"ra", "baif">>, <<"lafm", "baif">> }

\* the three regular expressions of the source need one of the words
\* cho/tạo/ra/làm/muốn/cần/được followed by bài or đề
quiz_patterns ==
    { <<"taoj", "ddeef">>, <<"taoj", "baif">>, <<"ra", "ddeef">>, <<"ra", "baif">>,
      <<"lafm", "ddeef">>, <<"lafm", "baif">> }

_should_create_quiz(text) ==
    \/ ContainsAny(LowerWords(text.words), quiz_keywords)
    \/ ContainsAny(LowerWords(text.words), quiz_patterns)

graph_keywords ==
    { <<"vex", "ddoof", "thij">>, <<"vex", "ddoof">>, <<"ddoof", "thij">>,
      <<"graph">>, <<"plot">>, <<"vex", "hafm">> }

_should_draw_graph(text) == ContainsAny(LowerWords(text.words), graph_keywords)

\* keywords of the blacklist (lich su, ve, vua, nha), each a list of words
blacklist == { <<"lichj", "suwr">>, <<"vex">>, <<"vua">>, <<"nhaf">> }

\* the characters a word is written with ("af" is the letter a with a grave
\* accent); a word that holds no part of a marker or of a one-word keyword is
\* one symbol
Spell(w) ==
    CASE w = "A."    -> <<"A", ".">>
      [] w = "a."    -> <<"a", ".">>
      [] w = "B."    -> <<"B", ".">>
      [] w = "b."    -> <<"b", ".">>
      [] w = "C."    -> <<"C", ".">>
      [] w = "c."    -> <<"c", ".">>
      [] w = "adn."  -> <<"a", "d", "n", ".">>
      [] w = "vua"   -> <<"v", "u", "a">>
      [] w = "Vua"   -> <<"V", "u", "a">>
      [] w = "nhaf"  -> <<"n", "h", "af">>
      [] w = "nhafn" -> <<"n", "h", "af", "n">>
      [] OTHER       -> <<w>>

\* the query string: the words, one space between two of them
RECURSIVE QueryChars(_)
QueryChars(ws) ==
    IF ws = << >> THEN << >>
    ELSE IF Len(ws) = 1 THEN Spell(ws[1])
    ELSE Spell(ws[1]) \o <<" ">> \o QueryChars(Tail(ws))

\* str.replace(" ", "").replace("\n", "")
RECURSIVE RemoveSpaces(_)
RemoveSpaces(cs) ==
    IF cs = << >> THEN << >>
    ELSE IF Head(cs) \in {" ", "\n"} THEN RemoveSpaces(Tail(cs))
    ELSE <<Head(cs)>> \o RemoveSpaces(Tail(cs))

\* line 389: query.upper().replace(" ", "").replace("\n", "")
query_normalized(cs) == RemoveSpaces([i \in DOMAIN cs |-> Upper(cs[i])])

\* line 392: `marker in query_normalized`
HasMarker(ws, marker) == Contains(query_normalized(QueryChars(ws)), Spell(marker))

\* lines 459-463: `keyword in query.lower()` for some keyword of the blacklist
HasBlacklisted(ws) ==
    \E keyword \in blacklist :
        Contains(LowerWords(QueryChars(ws)), QueryChars(keyword))

\* variant: the blacklist is looked at before the option markers
_should_use_tool_BlacklistFirst(text) ==
    IF HasBlacklisted(text.words)
    THEN FALSE
    ELSE TRUE

_should_use_tool(text) ==
    IF HasMarker(text.words, "A.") /\ HasMarker(text.words, "B.") /\ HasMarker(text.words, "C.")
    THEN TRUE
    ELSE ~HasBlacklisted(text.words)

\* variant: accepts nine pairs
_extract_answers_NinePairs(text) ==
    IF Len(text.pairs) < RequiredAnswers - 1
    THEN << >>
    ELSE [i \in 1..(IF Len(text.pairs) < RequiredAnswers THEN Len(text.pairs)
                    ELSE RequiredAnswers) |->
            <<text.pairs[i][1], Upper(text.pairs[i][2])>>]

\* re.findall of (\d+)\s*-?\s*([A-D]); at least 10 matches, else None (<< >>);
\* the first ten, letters upper-cased
_extract_answers(text) ==
    IF Len(text.pairs) < RequiredAnswers
    THEN << >>
    ELSE [i \in 1..RequiredAnswers |-> <<text.pairs[i][1], Upper(text.pairs[i][2])>>]

(***************************************************************************)
(* The first routing decision of SimpleAgent.query (line 774) on texts     *)
(* with and without a submission keyword and with a run of 0 to 10 pairs    *)
(***************************************************************************)
IntentWords ==
    { << >>, <<"Nopj", "baif">>, <<"submit">>, <<"Xem", "ddeef">>, <<"Caau", "3">>,
      <<"ddasp", "asn">> }

IntentTexts ==
    {[words |-> w, pairs |-> SubSeq(base, 1, n)] :
        w \in IntentWords, base \in {Key1, AnsMixed}, n \in 0..RequiredAnswers}

\* line 774: if self._should_submit_quiz(final_query), then lines 778-804
ShouldSubmitCall ==
    /\ req.via = "none"
    /\ \E text \in IntentTexts :
        /\ req' = [via |-> "intent", student_id |-> "-", msg |-> 0, quiz_id |-> 0,
                   answers |-> << >>, text |-> text]
        /\ resp' = [kind |-> IF _should_submit_quiz(text) THEN "submission_flow"
                             ELSE "other_flows",
                    reason |-> "-", answers |-> _extract_answers(text)]
    /\ UNCHANGED <<quizzes, submissions, env, calls, procs>>

(***************************************************************************)
(* Quiz content as the Generator renders it (quiz_generator.py:237-267):    *)
(* a list of blocks, each with the words it is written with.  A question    *)
(* is a head "## **Cau N**:" and its text, followed by the options, each   *)
(* behind a bold marker "**A.**".                                           *)
(***************************************************************************)
Content1 ==
    << [kind |-> "title", words |-> <<"#", "ddeef", "kieerm", "tra">>],
       [kind |-> "rule", words |-> <<"---">>],
       [kind |-> "head", words |-> <<"##", "**Caau", "1**:">>],
       [kind |-> "text", words |-> <<"gen", "laf", "gif">>],
       [kind |-> "opt", words |-> <<"**A.**", "adn">>],
       [kind |-> "opt", words |-> <<"**B.**", "arn">>],
       [kind |-> "head", words |-> <<"##", "**Caau", "2**:">>],
       [kind |-> "text", words |-> <<"adn", "cos", "mayj", "machj">>],
       [kind |-> "opt", words |-> <<"**A.**", "1">>],
       [kind |-> "opt", words |-> <<"**B.**", "2">>],
       [kind |-> "rule", words |-> <<"---">>] >>

(***************************************************************************)
(* Quiz Ledger (QuizStorage) over the rows of table quizzes                *)
(***************************************************************************)
PendingOf(qs, student_id) ==
    {i \in DOMAIN qs : qs[i].student_id = student_id /\ qs[i].status = "pending"}

\* variant: ORDER BY date ASC
get_latest_pending_quiz_Oldest(qs, student_id) ==
    IF PendingOf(qs, student_id) = {} THEN 0
    ELSE CHOOSE i \in PendingOf(qs, student_id) : \A k \in PendingOf(qs, student_id) : i <= k

\* SELECT ... WHERE student_id = ? AND status = 'pending' ORDER BY date DESC LIMIT 1;
\* 0 stands for None.  date is datetime.now().isoformat() taken by save_quiz, so
\* the rows of successive saves carry increasing dates: the row with the
\* greatest date is the one appended last
get_latest_pending_quiz(qs, student_id) ==
    IF PendingOf(qs, student_id) = {} THEN 0 ELSE Max(PendingOf(qs, student_id))

\* SELECT * FROM quizzes WHERE id = ?; 0 stands for None
get_quiz(qs, quiz_id) == IF quiz_id \in DOMAIN qs THEN quiz_id ELSE 0

\* variant: a table with a unique index over the pending rows of a student
save_quiz_UniquePending(qs, student_id, content, answer_key, subject, topic) ==
    IF \E i \in DOMAIN qs : qs[i].student_id = student_id /\ qs[i].status = "pending"
    THEN qs
    ELSE Append(qs, [student_id |-> student_id, content |-> content,
                     answer_key |-> answer_key, subject |-> subject, topic |-> topic,
                     status |-> "pending"])

\* INSERT of a fresh row with status 'pending'; no constraint rejects it
save_quiz(qs, student_id, content, answer_key, subject, topic) ==
    Append(qs, [student_id |-> student_id, status |-> "pending", content |-> content,
                answer_key |-> answer_key, subject |-> subject, topic |-> topic])

\* variant: an UPDATE without its WHERE clause
update_quiz_status_AllRows(qs, quiz_id, status) ==
    [i \in DOMAIN qs |-> [qs[i] EXCEPT !.status = status]]

\* UPDATE quizzes SET status = ? WHERE id = ?
update_quiz_status(qs, quiz_id, status) ==
    [i \in DOMAIN qs |-> IF i = quiz_id THEN [qs[i] EXCEPT !.status = status] ELSE qs[i]]

(***************************************************************************)
(* Submission Grader (SubmissionManager) over the rows of submissions      *)
(***************************************************************************)
\* variant: the WHERE clause without the student
check_quiz_submitted_AnyStudent(subs, quiz_id, student_id) ==
    \E i \in DOMAIN subs : subs[i].quiz_id = quiz_id

\* variant: count > 1 instead of count > 0
check_quiz_submitted_MoreThanOne(subs, quiz_id, student_id) ==
    Cardinality({i \in DOMAIN subs :
                    subs[i].quiz_id = quiz_id /\ subs[i].student_id = student_id}) > 1

\* SELECT COUNT(*) FROM submissions WHERE quiz_id = ? AND student_id = ? ... > 0
check_quiz_submitted(subs, quiz_id, student_id) ==
    \E i \in DOMAIN subs : subs[i].quiz_id = quiz_id /\ subs[i].student_id = student_id

\* parse(): number -> upper-cased letter, a later pair of the same number wins
ParsedNumbers(ans) == {ans[i][1] : i \in DOMAIN ans}
ParsedChoice(ans, num) == Upper(ans[Max({i \in DOMAIN ans : ans[i][1] = num})][2])

CorrectCount(student_answers, answer_key) ==
    Cardinality({num \in ParsedNumbers(answer_key) :
                    /\ num \in ParsedNumbers(student_answers)
                    /\ ParsedChoice(student_answers, num) = ParsedChoice(answer_key, num)})

\* round(x / d, 0) of Python: the nearest integer, a tie to the even one
RoundHalfEven(x, d) ==
    LET q == x \div d
        r == x % d
    IN IF 2 * r > d \/ (2 * r = d /\ q % 2 = 1) THEN q + 1 ELSE q

\* variant: the score taken over the entries of the student instead of the key
grade_submission_OverStudent(student_answers, answer_key) ==
    IF ParsedNumbers(answer_key) = {} \/ ParsedNumbers(student_answers) = {}
    THEN 0
    ELSE RoundHalfEven(1000 * CorrectCount(student_answers, answer_key),
                       Cardinality(ParsedNumbers(student_answers)))

\* round((correct / total) * 10.0, 2), in hundredths of a point
grade_submission(student_answers, answer_key) ==
    IF ParsedNumbers(answer_key) = {}
    THEN 0
    ELSE RoundHalfEven(1000 * CorrectCount(student_answers, answer_key),
                       Cardinality(ParsedNumbers(answer_key)))

\* variant: a table with UNIQUE(quiz_id, student_id)
submit_quiz_Unique(subs, quiz_id, student_id, student_answers, answer_key) ==
    IF \E i \in DOMAIN subs : subs[i].quiz_id = quiz_id /\ subs[i].student_id = student_id
    THEN subs
    ELSE Append(subs, [quiz_id |-> quiz_id, student_id |-> student_id,
                       student_answers |-> student_answers,
                       score |-> grade_submission(student_answers, answer_key)])

\* INSERT INTO submissions: no constraint on (quiz_id, student_id)
submit_quiz(subs, quiz_id, student_id, student_answers, answer_key) ==
    Append(subs, [quiz_id |-> quiz_id, student_id |-> student_id,
                  student_answers |-> student_answers,
                  score |-> grade_submission(student_answers, answer_key)])

\* where submit_quiz can fail inside its try: before or at the INSERT, or at
\* conn.commit() with the row inserted but not committed
SubmitQuizFailures == {"insert", "commit"}

\* variant: a failed commit leaves the inserted row in the table
submit_quiz_result_RowKept(subs, quiz_id, student_id, student_answers, answer_key, fail_at) ==
    IF fail_at = "insert"
    THEN [success |-> FALSE, subs |-> subs]
    ELSE [success |-> fail_at # "commit",
          subs |-> submit_quiz(subs, quiz_id, student_id, student_answers, answer_key)]

\* lines 131-221: the result of submit_quiz and the table it leaves; except
\* returns success = False and the close() of finally drops an uncommitted row
submit_quiz_result(subs, quiz_id, student_id, student_answers, answer_key, fail_at) ==
    IF fail_at \in SubmitQuizFailures
    THEN [success |-> FALSE, subs |-> subs]
    ELSE [success |-> TRUE,
          subs |-> submit_quiz(subs, quiz_id, student_id, student_answers, answer_key)]

(***************************************************************************)
(* grade_submission on answer strings.  A string is the list of its          *)
(* comma-separated items after strip(); an item is [num, choice, dash]:     *)
(* the text before and after its first "-", or an item without "-".         *)
(* none = TRUE stands for a value that is not a string (None).              *)
(***************************************************************************)
Item(num, choice) == [num |-> num, choice |-> choice, dash |-> TRUE]

NoDash(t) == [num |-> t, choice |-> "", dash |-> FALSE]

AnswerString(items) == [none |-> FALSE, items |-> items]

NoString == [none |-> TRUE, items |-> << >>]

\* parse(ans): the items with "-" as (num, choice) entries; a later entry of a number
\* replaces an earlier one (ParsedChoice)
parse(ans) ==
    LET kept == SelectSeq(ans.items, LAMBDA it : it.dash)
    IN [i \in DOMAIN kept |-> <<kept[i].num, kept[i].choice>>]

\* the call with its try/except: any exception gives 0.0
grade_submission_call(student_answers, answer_key) ==
    IF student_answers.none \/ answer_key.none
    THEN 0
    ELSE grade_submission(parse(student_answers), parse(answer_key))

ItemsOf(pairs) == [i \in DOMAIN pairs |-> Item(pairs[i][1], pairs[i][2])]

MaxItems == 3

GradeItems ==
    {Item("1", "A"), Item("1", "b"), Item("2", "B"), Item("3", "C"), Item("3", "a"),
     NoDash("1A")}

RECURSIVE SeqsUpTo(_, _)
SeqsUpTo(S, n) ==
    IF n = 0 THEN {<< >>}
    ELSE LET shorter == SeqsUpTo(S, n - 1)
         IN shorter \cup {Append(q, x) : q \in {r \in shorter : Len(r) = n - 1}, x \in S}

(***************************************************************************)
(* The search decision of SimpleAgent.query (lines 1153-1163) on queries    *)
(* written with option markers in several spellings ("A.", "a .", "b.",     *)
(* "adn.") and with blacklisted keywords ("Vua", "nhan" holding "nha")      *)
(***************************************************************************)
MaxQueryWords == 4

QueryWords == {"A.", "a", ".", "adn.", "b.", "C.", "Vua", "nhafn"}

\* line 1154: should_search = self._should_use_tool(user_query); lines 1156-1163
\* search with the retriever, otherwise the chat branch without a search
SearchDecisionCall ==
    /\ req.via = "none"
    /\ \E ws \in SeqsUpTo(QueryWords, MaxQueryWords) :
        LET user_query == [words |-> ws, pairs |-> NoPairs]
            should_search == _should_use_tool(user_query)
        IN
        /\ req' = [via |-> "search_decision", student_id |-> "-", msg |-> 0,
                   quiz_id |-> 0, answers |-> << >>, text |-> user_query]
        /\ calls' = IF should_search THEN <<"search">> ELSE <<"chat_llm">>
        /\ resp' = [kind |-> IF should_search THEN "search" ELSE "chat",
                    reason |-> "-"]
    /\ UNCHANGED <<quizzes, submissions, env, procs>>

SmallKeys ==
    { << >>,
      <<Item("1", "A"), Item("2", "B"), Item("3", "C")>>,
      <<Item("1", "a"), Item("2", "B")>>,
      <<Item("1", "A"), Item("1", "B"), Item("3", "C")>>,
      <<Item("1", "A"), NoDash("2B"), Item("3", "C")>> }

GradeInputs ==
    {[student_answers |-> AnswerString(a), answer_key |-> AnswerString(k)] :
        a \in SeqsUpTo(GradeItems, MaxItems), k \in SmallKeys}
    \cup {[student_answers |-> a, answer_key |-> AnswerString(ItemsOf(Key1))] :
            a \in {AnswerString(ItemsOf(Key1)), AnswerString(ItemsOf(AnsMixed)),
                   AnswerString(ItemsOf(Ans9)), AnswerString(<<NoDash("abc")>>),
                   AnswerString(<< >>), NoString}}
    \cup {[student_answers |-> AnswerString(ItemsOf(Key1)), answer_key |-> NoString]}

GradeCall ==
    /\ req.via = "none"
    /\ \E in \in GradeInputs :
        /\ req' = [via |-> "grade", student_id |-> "-", msg |-> 0, quiz_id |-> 0,
                   answers |-> in.student_answers, answer_key |-> in.answer_key]
        /\ resp' = [kind |-> "graded", reason |-> "-",
                    score |-> grade_submission_call(in.student_answers, in.answer_key)]
    /\ UNCHANGED <<quizzes, submissions, env, calls, procs>>

(***************************************************************************)
(* SubmissionManager.get_submission_with_details called on a stored        *)
(* submission: the answers are the ten comma-separated items a request     *)
(* stored, the agent's "num-LETTER" items or whatever items a REST client  *)
(* sent (app.py:1051 only counts them)                                     *)
(***************************************************************************)
\* int(num) on the digit strings of the vocabulary; -1 when int() raises ValueError
IntOf(num) ==
    CASE num = "1"  -> 1
      [] num = "01" -> 1
      [] num = "2"  -> 2
      [] num = "3"  -> 3
      [] num = "4"  -> 4
      [] num = "5"  -> 5
      [] num = "6"  -> 6
      [] num = "7"  -> 7
      [] num = "8"  -> 8
      [] num = "9"  -> 9
      [] num = "10" -> 10
      [] num = "11" -> 11
      [] OTHER      -> -1

\* every item of str.split(",") unpacks into (num, ans) and int(num) succeeds;
\* "".split(",") is [""], one item without "-"
Unpacks(ans) ==
    /\ ~ans.none
    /\ ans.items # << >>
    /\ \A i \in DOMAIN ans.items : ans.items[i].dash /\ IntOf(ans.items[i].num) # -1

\* student_dict / answer_dict: int(num) -> ans.upper(), a later item of a number wins
AnswerDict(ans) ==
    [n \in {IntOf(ans.items[i].num) : i \in DOMAIN ans.items} |->
        Upper(ans.items[Max({i \in DOMAIN ans.items : IntOf(ans.items[i].num) = n})].choice)]

\* dict.get(num, "?")
GetOr(d, num) == IF num \in DOMAIN d THEN d[num] ELSE "?"

DetailRange == 1..10

NoDetails == [kind |-> "details", details |-> << >>, correct_count |-> 0, incorrect_count |-> 0]

\* kind "raised": the ValueError of lines 256-257 or 261-262 leaves the function
get_submission_with_details(submission, answer_key) ==
    IF ~submission.found
    THEN NoDetails
    ELSE IF ~Unpacks(submission.student_answers) \/ ~Unpacks(answer_key)
    THEN [NoDetails EXCEPT !.kind = "raised"]
    ELSE
        LET student_dict == AnswerDict(submission.student_answers)
            answer_dict == AnswerDict(answer_key)
            details == [num \in DetailRange |->
                          [question_number |-> num,
                           student_answer |-> GetOr(student_dict, num),
                           correct_answer |-> GetOr(answer_dict, num),
                           is_correct |-> GetOr(student_dict, num) = GetOr(answer_dict, num)]]
        IN [kind |-> "details",
            details |-> details,
            correct_count |-> Cardinality({n \in DetailRange : details[n].is_correct}),
            incorrect_count |-> Cardinality({n \in DetailRange : ~details[n].is_correct})]

DetailReplacements ==
    {Item("1", "a"), Item("01", "D"), Item("11", "A"), Item("10", "c"), Item("x", "A"),
     NoDash("A")}

\* ten items each
DetailAnswers ==
    {ItemsOf(Key1), ItemsOf(AnsMixed), [i \in 1..RequiredAnswers |-> NoDash("A")]}
    \cup {[ItemsOf(Key1) EXCEPT ![i] = r] : i \in 1..RequiredAnswers, r \in DetailReplacements}

DetailKeys == {ItemsOf(Key1), ItemsOf(Ans9)}

DetailsCall ==
    /\ req.via = "none"
    /\ \E found \in BOOLEAN, a \in DetailAnswers, k \in DetailKeys :
        LET result == get_submission_with_details(
                          [found |-> found, student_answers |-> AnswerString(a)],
                          AnswerString(k))
        IN
        /\ req' = [via |-> "details", student_id |-> "-", msg |-> 0, quiz_id |-> 0,
                   answers |-> a, answer_key |-> k, found |-> found]
        /\ resp' = [kind |-> result.kind, reason |-> "-", details |-> result.details,
                    correct_count |-> result.correct_count,
                    incorrect_count |-> result.incorrect_count]
    /\ UNCHANGED <<quizzes, submissions, env, calls, procs>>

(***************************************************************************)
(* The success path of a submission through the agent (query.py 788-909):  *)
(* the answers _extract_answers takes from the message are graded and      *)
(* stored by submit_quiz, and the response reports that score next to the   *)
(* counts of get_submission_with_details.  The messages hold ten pairs as   *)
(* typed: a leading zero, a repeated number, a number above 10, lower case. *)
(***************************************************************************)
TypedReplacements == { <<"01", "A">>, <<"1", "d">>, <<"11", "A">>, <<"10", "c">> }

TypedAnswers ==
    {Key1, AnsMixed}
    \cup {[base EXCEPT ![i] = r] :
            base \in {Key1, AnsMixed}, i \in 1..RequiredAnswers, r \in TypedReplacements}

\* keys a saved quiz can hold: ten pairs, or the shorter list of a comment marker
StoredKeys == {Key1, Ans9, SubSeq(Key1, 1, 3)}

ReportCall ==
    /\ req.via = "none"
    /\ \E pairs \in TypedAnswers, key \in StoredKeys :
        LET answers == _extract_answers([words |-> <<"Nopj", "baif">>, pairs |-> pairs])
            student_answers == AnswerString(ItemsOf(answers))
            answer_key == AnswerString(ItemsOf(key))
            score == grade_submission_call(student_answers, answer_key)
            detailed == get_submission_with_details(
                            [found |-> TRUE, student_answers |-> student_answers],
                            answer_key)
        IN
        /\ req' = [via |-> "report", student_id |-> "-", msg |-> 0, quiz_id |-> 0,
                   answers |-> answers, answer_key |-> key]
        /\ resp' = [kind |-> IF detailed.kind = "raised" THEN "submit_exception"
                             ELSE "submitted",
                    reason |-> "-", score |-> score,
                    correct_count |-> detailed.correct_count,
                    incorrect_count |-> detailed.incorrect_count]
    /\ UNCHANGED <<quizzes, submissions, env, calls, procs>>

(***************************************************************************)
(* QuizGenerator._extract_answer_key on the markdown of one LLM reply.     *)
(* The markdown is the number of question headings and option markers it    *)
(* holds and the lines that matter to the four patterns:                    *)
(*   comment  <!-- ANSWER_KEY: items -->                                    *)
(*   inline   label items, label one of "Đáp án:", "Answer key:", "Answers:" *)
(*   head     **Đáp án:**                                                   *)
(*   numbered "1. D"                                                        *)
(*   blank, text                                                            *)
(* items are <<number, letter>>; a letter outside A-D makes the item one     *)
(* the class [A-D] does not match                                           *)
(***************************************************************************)
Line(kind, items) == [kind |-> kind, items |-> items, label |-> "-"]

Inline(label, items) == [kind |-> "inline", items |-> items, label |-> label]

Numbered(num, letter) == Line("numbered", <<<<num, letter>>>>)

WellFormedPair(item) == IntOf(item[1]) # -1 /\ item[2] \in {"A", "B", "C", "D"}

\* the longest run of well-formed items from the first one on
RECURSIVE WellFormedPrefix(_)
WellFormedPrefix(items) ==
    IF items = << >> \/ ~WellFormedPair(items[1]) THEN << >>
    ELSE <<items[1]>> \o WellFormedPrefix(Tail(items))

\* pattern1: [0-9]+-[A-D](?:,\s*[0-9]+-[A-D])+ between "<!-- ANSWER_KEY:" and "-->":
\* every item well-formed, two items or more
MatchesPattern1(line) ==
    /\ line.kind = "comment"
    /\ Len(line.items) >= 2
    /\ \A i \in DOMAIN line.items : WellFormedPair(line.items[i])

\* pattern2: the same list after a label, nothing required behind it
MatchesPattern2(line) ==
    /\ line.kind = "inline"
    /\ Len(WellFormedPrefix(line.items)) >= 2

FirstLine(lines, P(_)) ==
    LET hits == {i \in DOMAIN lines : P(lines[i])}
    IN IF hits = {} THEN 0 ELSE CHOOSE i \in hits : \A k \in hits : i <= k

\* the lines pattern3's group takes after the head at line h: numbered and blank
\* lines (\s* runs over line ends) up to the first other line
RECURSIVE GroupEnd(_, _)
GroupEnd(lines, i) ==
    IF i + 1 <= Len(lines) /\ lines[i + 1].kind \in {"numbered", "blank"}
    THEN GroupEnd(lines, i + 1)
    ELSE i

\* pattern3 matches at the first head whose next line is numbered
Pattern3Head(lines) ==
    FirstLine([i \in DOMAIN lines |->
                 [kind |-> IF lines[i].kind = "head" /\ i < Len(lines)
                              /\ lines[i + 1].kind = "numbered"
                           THEN "hit" ELSE "-"]],
              LAMBDA l : l.kind = "hit")

NumberedItems(lines) ==
    LET kept == SelectSeq(lines, LAMBDA l : l.kind = "numbered" /\ WellFormedPair(l.items[1]))
    IN [i \in DOMAIN kept |-> kept[i].items[1]]

\* pattern4: the first ten consecutive numbered lines; any other line resets
RECURSIVE BareLines(_, _, _)
BareLines(lines, i, answers) ==
    IF i > Len(lines) THEN << >>
    ELSE IF lines[i].kind = "numbered" /\ WellFormedPair(lines[i].items[1])
    THEN LET more == Append(answers, lines[i].items[1])
         IN IF Len(more) = RequiredAnswers THEN more ELSE BareLines(lines, i + 1, more)
    ELSE BareLines(lines, i + 1, << >>)

\* the answer key as pairs; << >> stands for None
_extract_answer_key(markdown) ==
    LET lines == markdown.lines
        c == FirstLine(lines, MatchesPattern1)
        l == FirstLine(lines, MatchesPattern2)
        h == Pattern3Head(lines)
        listed == IF h = 0 THEN << >>
                  ELSE NumberedItems(SubSeq(lines, h + 1, GroupEnd(lines, h)))
    IN
    IF c # 0 THEN lines[c].items
    ELSE IF l # 0 THEN WellFormedPrefix(lines[l].items)
    ELSE IF Len(listed) = RequiredAnswers THEN listed
    ELSE BareLines(lines, 1, << >>)

Pairs11 == Key1 \o << <<"11", "C">> >>

NumberedLines(pairs) == [i \in DOMAIN pairs |-> Numbered(pairs[i][1], pairs[i][2])]

Markdown(lines) == [questions |-> 10, options |-> 40, lines |-> lines]

CommentParts ==
    { << >>,
      <<Line("comment", Key1)>>,
      <<Line("comment", SubSeq(Key1, 1, 3))>>,
      <<Line("comment", Pairs11)>>,
      <<Line("comment", SubSeq(Key1, 1, 1))>>,
      <<Line("comment", [Key1 EXCEPT ![4] = <<"4", "E">>])>> }

InlineParts ==
    { << >>,
      <<Inline("Ddasp asn:", Key1)>>,
      <<Inline("Answer key:", SubSeq(Key1, 1, 3))>>,
      <<Inline("Answers:", [Key1 EXCEPT ![3] = <<"3", "E">>])>> }

ListParts ==
    { << >>,
      <<Line("head", << >>)>> \o NumberedLines(Key1),
      <<Line("head", << >>)>> \o NumberedLines(Ans9),
      <<Line("head", << >>)>> \o NumberedLines(Pairs11),
      <<Line("head", << >>)>> \o NumberedLines(SubSeq(Key1, 1, 5)) \o <<Line("blank", << >>)>>
          \o NumberedLines(SubSeq(Key1, 6, 10)),
      NumberedLines(Key1),
      NumberedLines(Ans9),
      NumberedLines(SubSeq(Key1, 1, 5)) \o <<Line("blank", << >>)>>
          \o NumberedLines(SubSeq(Key1, 6, 10)) }

Markdowns ==
    {Markdown(<<Line("text", << >>)>> \o c \o i \o l) :
        c \in CommentParts, i \in InlineParts, l \in ListParts}

ExtractKeyCall ==
    /\ req.via = "none"
    /\ \E markdown \in Markdowns :
        /\ req' = [via |-> "extract_key", student_id |-> "-", msg |-> 0, quiz_id |-> 0,
                   answers |-> << >>, markdown |-> markdown]
        /\ resp' = [kind |-> "key", reason |-> "-",
                    answer_key |-> _extract_answer_key(markdown)]
    /\ UNCHANGED <<quizzes, submissions, env, calls, procs>>

(***************************************************************************)
(* QuizGenerator.generate_quiz over the replies of its LLM calls: the k-th  *)
(* chat.completions.create either raises or returns a markdown             *)
(***************************************************************************)
Reply(markdown) == [raises |-> FALSE, content |-> markdown]

Raises == [raises |-> TRUE, content |-> Markdown(<< >>)]

\* "ĐÁP ÁN" in quiz_markdown.upper(): the head **Đáp án:** and the label "Đáp án:"
HasAnswerWord(markdown) ==
    \E i \in DOMAIN markdown.lines :
        \/ markdown.lines[i].kind = "head"
        \/ markdown.lines[i].label = "Ddasp asn:"

_validate_quiz(quiz_markdown, expected_questions) ==
    /\ quiz_markdown.questions = expected_questions
    /\ quiz_markdown.options = expected_questions * 4
    /\ ~HasAnswerWord(quiz_markdown)

GenFailure(n) ==
    [success |-> FALSE, quiz_markdown |-> Markdown(<< >>), answer_key |-> << >>,
     llm_calls |-> n]

\* variant: an exception of the format retry keeps the content generated before
generate_quiz_RetryUnprotected(replies) ==
    IF replies[1].raises THEN GenFailure(1)
    ELSE
        LET first == replies[1].content
            retry == _extract_answer_key(first) = << >>
        IN
        IF retry /\ replies[2].raises THEN GenFailure(2)
        ELSE
            LET quiz_markdown == IF retry THEN replies[2].content ELSE first
                answer_key == _extract_answer_key(quiz_markdown)
                n == IF retry THEN 2 ELSE 1
            IN
            IF _validate_quiz(quiz_markdown, RequiredAnswers) \/ replies[n + 1].raises
            THEN [success |-> TRUE, quiz_markdown |-> quiz_markdown,
                  answer_key |-> answer_key,
                  llm_calls |-> IF _validate_quiz(quiz_markdown, RequiredAnswers)
                                THEN n ELSE n + 1]
            ELSE [success |-> TRUE, quiz_markdown |-> replies[n + 1].content,
                  answer_key |-> answer_key, llm_calls |-> n + 1]

\* variant: a reply of the format retry that fails validation again is given up
generate_quiz_StrictRetry(replies) ==
    IF replies[1].raises THEN GenFailure(1)
    ELSE
        LET first == replies[1].content
            retry == _extract_answer_key(first) = << >>
        IN
        IF retry /\ replies[2].raises THEN GenFailure(2)
        ELSE
            LET quiz_markdown == IF retry THEN replies[2].content ELSE first
                answer_key == _extract_answer_key(quiz_markdown)
                n == IF retry THEN 2 ELSE 1
            IN
            IF _validate_quiz(quiz_markdown, RequiredAnswers)
            THEN [success |-> TRUE, quiz_markdown |-> quiz_markdown,
                  answer_key |-> answer_key, llm_calls |-> n]
            ELSE IF replies[n + 1].raises
                    \/ ~_validate_quiz(replies[n + 1].content, RequiredAnswers)
            THEN GenFailure(n + 1)
            ELSE [success |-> TRUE, quiz_markdown |-> replies[n + 1].content,
                  answer_key |-> answer_key, llm_calls |-> n + 1]

\* lines 290-357: first call; a second call when no key was found; a third call
\* (second when the first had a key) when _validate_quiz fails, whose reply
\* replaces quiz_markdown only; llm_calls counts the calls made
generate_quiz(replies) ==
    IF replies[1].raises THEN GenFailure(1)
    ELSE
        LET first == replies[1].content
            retry == _extract_answer_key(first) = << >>
        IN
        IF retry /\ replies[2].raises THEN GenFailure(2)
        ELSE
            LET quiz_markdown == IF retry THEN replies[2].content ELSE first
                answer_key == _extract_answer_key(quiz_markdown)
                n == IF retry THEN 2 ELSE 1
            IN
            IF _validate_quiz(quiz_markdown, RequiredAnswers)
            THEN [success |-> TRUE, quiz_markdown |-> quiz_markdown,
                  answer_key |-> answer_key, llm_calls |-> n]
            ELSE IF replies[n + 1].raises THEN GenFailure(n + 1)
            ELSE [success |-> TRUE, quiz_markdown |-> replies[n + 1].content,
                  answer_key |-> answer_key, llm_calls |-> n + 1]

KeyD == [i \in 1..RequiredAnswers |-> <<Key1[i][1], "D">>]

MdKey == Markdown(<<Line("text", << >>), Line("comment", Key1)>>)
MdKeyD == Markdown(<<Line("text", << >>), Line("comment", KeyD)>>)
MdNoKey == Markdown(<<Line("text", << >>)>>)
MdShortKey == Markdown(<<Line("text", << >>), Line("comment", SubSeq(Key1, 1, 3))>>)
MdLabeled == Markdown(<<Line("text", << >>), Inline("Ddasp asn:", Key1)>>)
MdNineQuestions ==
    [questions |-> 9, options |-> 36, lines |-> <<Line("text", << >>), Line("comment", Key1)>>]
MdNineNoKey == [questions |-> 9, options |-> 36, lines |-> <<Line("text", << >>)>>]

GenReplies ==
    {Raises, Reply(MdKey), Reply(MdKeyD), Reply(MdNoKey), Reply(MdShortKey),
     Reply(MdLabeled), Reply(MdNineQuestions), Reply(MdNineNoKey)}

GenerateCall ==
    /\ req.via = "none"
    /\ \E r1 \in GenReplies, r2 \in GenReplies, r3 \in GenReplies :
        LET result == generate_quiz(<<r1, r2, r3>>) IN
        /\ req' = [via |-> "generate", student_id |-> "-", msg |-> 0, quiz_id |-> 0,
                   answers |-> << >>, replies |-> <<r1, r2, r3>>]
        /\ resp' = [kind |-> IF result.success THEN "generated" ELSE "generate_failed",
                    reason |-> "-", quiz_markdown |-> result.quiz_markdown,
                    answer_key |-> result.answer_key, llm_calls |-> result.llm_calls]
    /\ UNCHANGED <<quizzes, submissions, env, calls, procs>>

(***************************************************************************)
(* Quiz Guard                                                              *)
(***************************************************************************)
SimilarityThresholdPct == 60

Follows(ws, w, nexts) ==
    \E i \in 1..(Len(ws) - 1) : ws[i] = w /\ ws[i + 1] \in nexts

StartsUpperAD(w) == w \in {"A", "B", "C", "D", "A.", "B.", "C.", "D."}

\* variant: the patterns searched in the query as typed
_has_explicit_cheating_AsTyped(text) ==
    LET lw == text.words IN
    \/ \E i \in 1..(Len(lw) - 1) : lw[i] = "caau" /\ IsNumber(lw[i + 1])
    \/ \E i \in 1..(Len(lw) - 2) : lw[i] = "caau" /\ lw[i + 1] = "soos" /\ IsNumber(lw[i + 2])
    \/ Contains(lw, <<"ddaps", "asn">>)
    \/ \E i \in 1..(Len(lw) - 1) : lw[i] = "chonj" /\ StartsUpperAD(lw[i + 1])
    \/ Follows(lw, "baif", {"nayf", "ddos"}) \/ Contains(lw, <<"baif", "kieerm", "tra">>)
    \/ Follows(lw, "ddeef", {"nayf", "ddos", "thi"})
    \/ Contains(lw, <<"caau", "hoir", "soos">>)

\* the seven patterns, searched in query.lower()
_has_explicit_cheating(text) ==
    LET lw == LowerWords(text.words) IN
    \/ \E i \in 1..(Len(lw) - 1) : lw[i] = "caau" /\ IsNumber(lw[i + 1])
    \/ \E i \in 1..(Len(lw) - 2) : lw[i] = "caau" /\ lw[i + 1] = "soos" /\ IsNumber(lw[i + 2])
    \/ Contains(lw, <<"ddaps", "asn">>)
    \/ \E i \in 1..(Len(lw) - 1) : lw[i] = "chonj" /\ StartsUpperAD(lw[i + 1])
    \/ Follows(lw, "baif", {"nayf", "ddos"}) \/ Contains(lw, <<"baif", "kieerm", "tra">>)
    \/ Follows(lw, "ddeef", {"nayf", "ddos", "thi"})
    \/ Contains(lw, <<"caau", "hoir", "soos">>)

\* set(text.lower().split()): the answer list, written without blanks, is one word
WordSet(text) ==
    {Lower(text.words[i]) : i \in DOMAIN text.words}
        \cup (IF text.pairs = << >> THEN {} ELSE {"<answers>"})

QuestionWordSet(q) == {Lower(q[i]) : i \in DOMAIN q}

\* len(intersection) / len(union) > 0.6
SimilarityAbove(text, q) ==
    LET a == WordSet(text)
        b == QuestionWordSet(q)
    IN /\ a \cup b # {}
       /\ 100 * Cardinality(a \cap b) > SimilarityThresholdPct * Cardinality(a \cup b)

RECURSIVE Flatten(_)
Flatten(blocks) ==
    IF blocks = << >> THEN << >> ELSE Head(blocks).words \o Flatten(Tail(blocks))

\* re.findall of ##\s+\*\*Cau\s+\d+\*\*:\s*(.+?)(?=\*\*[A-D]\.\*\*|$) with DOTALL:
\* the text after a head up to the next bold option marker, or up to the end of the
\* content when no such marker follows; the scan goes on where the match ended
RECURSIVE ExtractFrom(_, _)
ExtractFrom(content, i) ==
    IF i > Len(content) THEN << >>
    ELSE IF content[i].kind = "head"
    THEN LET markers == {j \in (i + 1)..Len(content) : content[j].kind = "opt"}
             stop == IF markers = {} THEN Len(content) + 1
                     ELSE CHOOSE j \in markers : \A k \in markers : j <= k
         IN <<Flatten(SubSeq(content, i + 1, stop - 1))>> \o ExtractFrom(content, stop)
    ELSE ExtractFrom(content, i + 1)

\* variant: a match ends only at the end of the content
_extract_all_questions_ToEnd(content) ==
    LET heads == {i \in DOMAIN content : content[i].kind = "head"} IN
    IF heads = {} THEN << >>
    ELSE LET first == CHOOSE i \in heads : \A k \in heads : i <= k
         IN <<Flatten(SubSeq(content, first + 1, Len(content)))>>

_extract_all_questions(content) == ExtractFrom(content, 1)

SimilarityBlocks(text, quiz) ==
    LET quiz_questions == _extract_all_questions(quiz.content) IN
    \E i \in DOMAIN quiz_questions : SimilarityAbove(text, quiz_questions[i])

\* the layer-3 answer of the LLM is used only when layers 1 and 2 found nothing
ReachesLLM(text, quiz) == ~_has_explicit_cheating(text) /\ ~SimilarityBlocks(text, quiz)

GuardLLMAnswers == {"YES", "NO", "error"}

\* variant: an LLM failure lets the message through
_llm_classify_FailOpen(llm) ==
    IF llm = "YES"
    THEN [is_blocked |-> TRUE, reason |-> "giong noi dung de thi", confidence |-> 95, method |-> "llm"]
    ELSE [is_blocked |-> FALSE, reason |-> "khong lien quan", confidence |-> 95, method |-> "llm"]

_llm_classify(llm) ==
    IF llm = "error"
    THEN [is_blocked |-> TRUE, reason |-> "loi he thong", confidence |-> 50, method |-> "error"]
    ELSE IF llm = "YES"
    THEN [is_blocked |-> TRUE, reason |-> "giong noi dung de thi", confidence |-> 95, method |-> "llm"]
    ELSE [is_blocked |-> FALSE, reason |-> "khong lien quan", confidence |-> 95, method |-> "llm"]

is_cheating(text, quiz, llm) ==
    IF _has_explicit_cheating(text)
    THEN [is_blocked |-> TRUE, reason |-> "truc tiep ve de thi", confidence |-> 100, method |-> "explicit"]
    ELSE IF SimilarityBlocks(text, quiz)
    THEN [is_blocked |-> TRUE, reason |-> "trung voi cau trong de", confidence |-> 98, method |-> "similarity"]
    ELSE _llm_classify(llm)

(***************************************************************************)
(* What the collaborators answer during one request                        *)
(***************************************************************************)
ALLOWED_QUIZ_SUBJECTS == {"Toasn", "Vaatj lys", "Hoas hojc", "Sinh hojc"}

\* the JSON the topic-extraction LLM returns: ok = FALSE when the call raises or
\* the text is no JSON object
LLMSubjects == {NULL, "Toasn", "Lichj suwr"}
LLMTopics == {NULL, " ab ", "abc"}
NoQuizInfo == [ok |-> FALSE, subject |-> NULL, topic |-> NULL]
LLMQuizInfos ==
    {NoQuizInfo} \cup [ok : {TRUE}, subject : LLMSubjects, topic : LLMTopics]

\* what the LLM does for the calls of one generate_quiz, by name
GenOutcomes ==
    {"fail", "nokey", "ok", "retry_fail", "retry_ok", "format_fail", "format_retry"}

ConcGenOutcomes == {"fail", "nokey", "ok"}

GenScenario(g) ==
    CASE g = "fail"         -> <<Raises, Raises, Raises>>
      [] g = "nokey"        -> <<Reply(MdNoKey), Reply(MdNoKey), Raises>>
      [] g = "ok"           -> <<Reply(MdKey), Raises, Raises>>
      [] g = "retry_fail"   -> <<Reply(MdNoKey), Raises, Raises>>
      [] g = "retry_ok"     -> <<Reply(MdNoKey), Reply(MdKey), Raises>>
      [] g = "format_fail"  -> <<Reply(MdNineQuestions), Raises, Raises>>
      [] OTHER              -> <<Reply(MdNineQuestions), Reply(MdKey), Raises>>

\* variant: no test of the answer key before save_quiz
KeyMissing_Never(result) == FALSE

\* not result.get("answer_key")
KeyMissing(result) == result.answer_key = << >>

(***************************************************************************)
(* What the student is shown of a generated quiz: the creation response    *)
(* (query.py 1087-1097) and the view response (_show_quiz_content) embed    *)
(* the markdown as generate_quiz returned it and save_quiz stored it.  One  *)
(* step handles two quizzes whose LLM replies differ in the answer key only. *)
(***************************************************************************)
ShowKeys ==
    {Key1, KeyD} \cup {[Key1 EXCEPT ![i] = <<Key1[i][1], "D">>] : i \in {1, 2, 3, 5}}

\* where the reply carries its key: the comment marker or a labeled list
KeyLines(key) ==
    <<Line("comment", key), Inline("Answer key:", key), Inline("Answers:", key)>>

\* lines 1087-1097: the success response, {result['quiz_markdown']} inside the text
created_response(result) ==
    [kind |-> "created", shown |-> result.quiz_markdown.lines]

\* lines 649-682: the stored content inside the text, or the notice for an empty content
_show_quiz_content(pending_quiz) ==
    IF pending_quiz.content.lines = << >>
    THEN [kind |-> "view_unavailable", shown |-> << >>]
    ELSE [kind |-> "view", shown |-> pending_quiz.content.lines]

\* generate_quiz, save_quiz(content = result['quiz_markdown']), then the two responses
CreateAndView(reply) ==
    LET result == generate_quiz(<<reply, reply, reply>>)
        saved == [content |-> result.quiz_markdown, answer_key |-> result.answer_key]
    IN IF ~result.success THEN <<[kind |-> "generate_failed", shown |-> << >>]>>
       ELSE IF KeyMissing(result) THEN <<[kind |-> "no_key", shown |-> << >>]>>
       ELSE <<created_response(result), _show_quiz_content(saved)>>

ShowCall ==
    /\ req.via = "none"
    /\ \E k1 \in ShowKeys, k2 \in ShowKeys, at \in 1..3 :
        LET reply(k) == Reply(Markdown(<<Line("text", << >>), KeyLines(k)[at]>>))
        IN
        /\ req' = [via |-> "show", student_id |-> "-", msg |-> 0, quiz_id |-> 0,
                   answers |-> << >>, keys |-> <<k1, k2>>]
        /\ resp' = [kind |-> "shown", reason |-> "-",
                    first |-> CreateAndView(reply(k1)),
                    second |-> CreateAndView(reply(k2))]
    /\ UNCHANGED <<quizzes, submissions, env, calls, procs>>

SubmitFailures == {"none", "insert", "commit", "update", "details"}
GraphOutcomes == {"no_equation", "ok", "failed"}

\* what the embedding service and the vector store do for one search: the
\* embedding call fails, or the store returns up to top_k hits, best first,
\* each with its score in percent and with or without an explanation
SearchOutcomes ==
    {"embed_fails", "empty", "s55", "s79_60", "s80_expl", "s80_noexpl", "s95_85_expl",
     "s95_85_noexpl"}

Hit(score, explanation) == [score |-> score, explanation |-> explanation]

StoreHits(r) ==
    CASE r = "s55"           -> <<Hit(55, TRUE)>>
      [] r = "s79_60"        -> <<Hit(79, TRUE), Hit(60, FALSE)>>
      [] r = "s80_expl"      -> <<Hit(80, TRUE)>>
      [] r = "s80_noexpl"    -> <<Hit(80, FALSE)>>
      [] r = "s95_85_expl"   -> <<Hit(95, TRUE), Hit(85, FALSE)>>
      [] r = "s95_85_noexpl" -> <<Hit(95, FALSE), Hit(85, TRUE)>>
      [] OTHER               -> << >>

\* QuestionRetriever.search: the formatted hits, or [] when anything raises
search(r) == IF r = "embed_fails" THEN << >> ELSE StoreHits(r)

SearchScoreThresholdPct == 80

\* variant: <= instead of <
ScoreTooLow_OrEqual(results) ==
    results = << >> \/ results[1].score <= SearchScoreThresholdPct

\* not results or results[0]['score'] < 0.8
ScoreTooLow(results) ==
    results = << >> \/ results[1].score < SearchScoreThresholdPct

NoEnv ==
    [quiz_info |-> NoQuizInfo, gen |-> "-", save_fails |-> FALSE, guard_llm |-> "-",
     fail_at |-> "-", graph |-> "-", search |-> "-", chat_fails |-> FALSE]

\* the characters of the topic strings
Chars(t) ==
    CASE t = " ab " -> <<" ", "a", "b", " ">>
      [] t = "abc"  -> <<"a", "b", "c">>
      [] OTHER      -> << >>

RECURSIVE LStrip(_)
LStrip(cs) == IF cs # << >> /\ Head(cs) = " " THEN LStrip(Tail(cs)) ELSE cs

RECURSIVE RStrip(_)
RStrip(cs) ==
    IF cs # << >> /\ cs[Len(cs)] = " " THEN RStrip(SubSeq(cs, 1, Len(cs) - 1)) ELSE cs

\* str.strip()
Strip(cs) == RStrip(LStrip(cs))

\* returns the JSON object when it has a truthy topic, else None (ok = FALSE)
extract_topic_from_query(llm) ==
    IF llm.ok /\ Truthy(llm.topic) THEN llm ELSE NoQuizInfo

\* variant: the length test without strip()
TopicTooShort_NoStrip(topic) == ~Truthy(topic) \/ Len(Chars(topic)) < MinTopicLen

TopicTooShort(topic) == ~Truthy(topic) \/ Len(Strip(Chars(topic))) < MinTopicLen

(***************************************************************************)
(* SimpleAgent.query: one whole request of student s with message m        *)
(***************************************************************************)
\* requests that carry an image: the text typed with it and what the vision
\* call of _extract_text_from_image does, a raise or a reply whose stripped
\* text is message `text` (0: nothing but whitespace).  Request number
\* Len(Messages) + k is ImageRequests[k]; the numbers up to Len(Messages) are
\* the messages sent without image_context
ImageRequests ==
    << [user_query |-> 10, image |-> [raises |-> TRUE, text |-> 0]],
       [user_query |-> 10, image |-> [raises |-> FALSE, text |-> 0]],
       [user_query |-> 10, image |-> [raises |-> FALSE, text |-> 1]],
       [user_query |-> 10, image |-> [raises |-> FALSE, text |-> 6]],
       [user_query |-> 10, image |-> [raises |-> FALSE, text |-> 9]],
       [user_query |-> 5, image |-> [raises |-> TRUE, text |-> 0]],
       [user_query |-> 5, image |-> [raises |-> FALSE, text |-> 7]],
       [user_query |-> 1, image |-> [raises |-> FALSE, text |-> 10]] >>

ImageIds == {Len(Messages) + k : k \in DOMAIN ImageRequests}

image_context(m) == ImageRequests[m - Len(Messages)].image

\* the stripped reply, "" (0) when the call raises
_extract_text_from_image(image) == IF image.raises THEN 0 ELSE image.text

\* variant: final_query keeps the raw input
image_handling_RawFinal(m) ==
    IF m \notin ImageIds
    THEN [user_query |-> m, final_query |-> m]
    ELSE LET extracted_text == _extract_text_from_image(image_context(m))
             raw == ImageRequests[m - Len(Messages)].user_query
         IN IF extracted_text # 0
            THEN [user_query |-> extracted_text, final_query |-> raw]
            ELSE [user_query |-> raw, final_query |-> raw]

\* lines 747-772: final_query = user_query; with an image and a non-empty
\* extracted text both become the extracted text
image_handling(m) ==
    IF m \notin ImageIds
    THEN [user_query |-> m, final_query |-> m]
    ELSE LET extracted_text == _extract_text_from_image(image_context(m))
             raw == ImageRequests[m - Len(Messages)].user_query
         IN IF extracted_text # 0
            THEN [user_query |-> extracted_text, final_query |-> extracted_text]
            ELSE [user_query |-> raw, final_query |-> raw]

\* the text every routing test of the request reads
UserQuery(m) == Messages[image_handling(m).user_query]

NoReason == "-"

Return(s, m, e, kind, reason, c, qs, ss) ==
    /\ quizzes' = qs
    /\ submissions' = ss
    /\ req' = [via |-> "agent", student_id |-> s, msg |-> m, quiz_id |-> 0, answers |-> << >>]
    /\ env' = e
    /\ resp' = [kind |-> kind, reason |-> reason,
                final_query |-> image_handling(m).final_query]
    /\ calls' = c
    /\ UNCHANGED procs

\* lines 774-916: the submission flow
SubmissionFlow(s, m) ==
    LET text == UserQuery(m)
        pending == get_latest_pending_quiz(quizzes, s)
        answers == _extract_answers(text)
    IN
    IF pending = 0
    THEN Return(s, m, NoEnv, "no_pending", NoReason, << >>, quizzes, submissions)
    ELSE IF answers = << >>
    THEN Return(s, m, NoEnv, "bad_answers", NoReason, << >>, quizzes, submissions)
    ELSE IF get_quiz(quizzes, pending) = 0
    THEN Return(s, m, NoEnv, "quiz_not_found", NoReason, << >>, quizzes, submissions)
    ELSE IF check_quiz_submitted(submissions, pending, s)
    THEN Return(s, m, NoEnv, "already_submitted", NoReason, << >>, quizzes, submissions)
    ELSE IF quizzes[pending].answer_key = << >>
    THEN Return(s, m, NoEnv, "missing_key", NoReason, << >>, quizzes, submissions)
    ELSE
        \E f \in SubmitFailures :
            LET e == [NoEnv EXCEPT !.fail_at = f]
                result == submit_quiz_result(submissions, pending, s, answers,
                                             quizzes[pending].answer_key, f)
                inserted == result.subs
                completed == update_quiz_status(quizzes, pending, "completed")
            IN
            IF ~result.success
            THEN Return(s, m, e, "submit_failed", NoReason, <<"submit_quiz">>,
                        quizzes, result.subs)
            ELSE IF f = "update"
            THEN Return(s, m, e, "submit_exception", NoReason,
                        <<"submit_quiz", "update_quiz_status">>, quizzes, inserted)
            ELSE IF f = "details"
            THEN Return(s, m, e, "submit_exception", NoReason,
                        <<"submit_quiz", "update_quiz_status", "call_daily">>,
                        completed, inserted)
            ELSE Return(s, m, e, "submitted", NoReason,
                        <<"submit_quiz", "update_quiz_status", "call_daily">>,
                        completed, inserted)

\* lines 975-1106: quiz creation
CreateFlow(s, m, c, e0) ==
    \E llm \in LLMQuizInfos :
        LET quiz_info == extract_topic_from_query(llm)
            e1 == [e0 EXCEPT !.quiz_info = llm]
            c1 == Append(c, "extract_topic")
        IN
        IF ~quiz_info.ok
        THEN Return(s, m, e1, "not_understood", NoReason, c1, quizzes, submissions)
        ELSE IF ~Truthy(quiz_info.subject)
        THEN Return(s, m, e1, "no_subject", NoReason, c1, quizzes, submissions)
        ELSE IF quiz_info.subject \notin ALLOWED_QUIZ_SUBJECTS
        THEN Return(s, m, e1, "unsupported_subject", NoReason, c1, quizzes, submissions)
        ELSE IF TopicTooShort(quiz_info.topic)
        THEN Return(s, m, e1, "no_topic", NoReason, c1, quizzes, submissions)
        ELSE
            \E g \in GenOutcomes :
                LET e2 == [e1 EXCEPT !.gen = g]
                    c2 == Append(c1, "generate_quiz")
                    result == generate_quiz(GenScenario(g))
                IN
                IF ~result.success
                THEN Return(s, m, e2, "generate_failed", NoReason, c2, quizzes, submissions)
                ELSE IF KeyMissing(result)
                THEN Return(s, m, e2, "no_key", NoReason, c2, quizzes, submissions)
                ELSE
                    \E sf \in BOOLEAN :
                        LET e3 == [e2 EXCEPT !.save_fails = sf]
                            c3 == Append(c2, "save_quiz")
                        IN
                        IF sf
                        THEN Return(s, m, e3, "created", NoReason, c3, quizzes, submissions)
                        ELSE /\ Len(quizzes) < MaxQuizzes
                             /\ Return(s, m, e3, "created", NoReason, c3,
                                       save_quiz(quizzes, s, Content1, result.answer_key,
                                                 quiz_info.subject, quiz_info.topic),
                                       submissions)

\* lines 1108-1151: graph drawing
GraphFlow(s, m, c, e0) ==
    \E g \in GraphOutcomes :
        Return(s, m, [e0 EXCEPT !.graph = g],
               CASE g = "no_equation" -> "graph_no_equation"
                 [] g = "ok" -> "graph_ok"
                 [] OTHER -> "graph_failed",
               NoReason, Append(c, "graph"), quizzes, submissions)

\* the LLM call of the chat step: the outer handler turns an exception into an error response
ChatLLM(s, m, c, e0, kind) ==
    \E cf \in BOOLEAN :
        Return(s, m, [e0 EXCEPT !.chat_fails = cf], IF cf THEN "error" ELSE kind,
               NoReason, Append(c, "chat_llm"), quizzes, submissions)

\* lines 1153-1285: retrieval search or general chat
SearchOrChat(s, m, c, e0) ==
    IF _should_use_tool(UserQuery(m))
    THEN \E r \in SearchOutcomes :
            LET e1 == [e0 EXCEPT !.search = r]
                c1 == Append(c, "search")
                results == search(r)
            IN
            IF ScoreTooLow(results)
            THEN ChatLLM(s, m, c1, e1, "chat_fallback")
            ELSE IF results[1].explanation
            THEN Return(s, m, e1, "search_answer", NoReason, c1, quizzes, submissions)
            ELSE ChatLLM(s, m, c1, e1, "search_llm")
    ELSE ChatLLM(s, m, c, e0, "chat")

\* variant: the graph step ahead of quiz creation
Routing_GraphFirst(s, m, c, e) ==
    IF _should_draw_graph(UserQuery(m))
    THEN GraphFlow(s, m, c, e)
    ELSE IF _should_create_quiz(UserQuery(m))
    THEN CreateFlow(s, m, c, e)
    ELSE SearchOrChat(s, m, c, e)

\* lines 975-1285: the steps after the pending-quiz handling
Routing(s, m, c, e) ==
    IF _should_create_quiz(UserQuery(m))
    THEN CreateFlow(s, m, c, e)
    ELSE IF _should_draw_graph(UserQuery(m))
    THEN GraphFlow(s, m, c, e)
    ELSE SearchOrChat(s, m, c, e)

\* variant: no create refusal while a quiz is pending
PendingQuizHandling_NoRefusal(s, m) ==
    LET text == UserQuery(m)
        pending == get_latest_pending_quiz(quizzes, s)
    IN
    IF pending = 0
    THEN Routing(s, m, << >>, NoEnv)
    ELSE IF _should_view_quiz(text)
    THEN Return(s, m, NoEnv, "view", NoReason, << >>, quizzes, submissions)
    ELSE
        \E llm \in (IF ReachesLLM(text, quizzes[pending]) THEN GuardLLMAnswers ELSE {"-"}) :
            LET guard_result == is_cheating(text, quizzes[pending], llm)
                e == [NoEnv EXCEPT !.guard_llm = llm]
            IN
            IF guard_result.is_blocked
            THEN Return(s, m, e, "guard_blocked", guard_result.reason, <<"guard">>,
                        quizzes, submissions)
            ELSE Routing(s, m, <<"guard">>, e)

\* variant: the guard's verdict is not looked at
PendingQuizHandling_GuardIgnored(s, m) ==
    LET text == UserQuery(m)
        pending == get_latest_pending_quiz(quizzes, s)
    IN
    IF pending = 0
    THEN Routing(s, m, << >>, NoEnv)
    ELSE IF _should_view_quiz(text)
    THEN Return(s, m, NoEnv, "view", NoReason, << >>, quizzes, submissions)
    ELSE IF _should_create_quiz(text)
    THEN Return(s, m, NoEnv, "create_refused", NoReason, << >>, quizzes, submissions)
    ELSE
        \E llm \in (IF ReachesLLM(text, quizzes[pending]) THEN GuardLLMAnswers ELSE {"-"}) :
            Routing(s, m, <<"guard">>, [NoEnv EXCEPT !.guard_llm = llm])

\* lines 918-973: view, create refusal and the guard while a quiz is pending
PendingQuizHandling(s, m) ==
    LET text == UserQuery(m)
        pending == get_latest_pending_quiz(quizzes, s)
    IN
    IF pending = 0
    THEN Routing(s, m, << >>, NoEnv)
    ELSE IF _should_view_quiz(text)
    THEN Return(s, m, NoEnv, "view", NoReason, << >>, quizzes, submissions)
    ELSE IF _should_create_quiz(text)
    THEN Return(s, m, NoEnv, "create_refused", NoReason, << >>, quizzes, submissions)
    ELSE
        \E llm \in (IF ReachesLLM(text, quizzes[pending]) THEN GuardLLMAnswers ELSE {"-"}) :
            LET guard_result == is_cheating(text, quizzes[pending], llm)
                e == [NoEnv EXCEPT !.guard_llm = llm]
            IN
            IF guard_result.is_blocked
            THEN Return(s, m, e, "guard_blocked", guard_result.reason, <<"guard">>,
                        quizzes, submissions)
            ELSE Routing(s, m, <<"guard">>, e)

query(s, m) ==
    IF _should_submit_quiz(UserQuery(m))
    THEN SubmissionFlow(s, m)
    ELSE PendingQuizHandling(s, m)

\* a request is taken up when the response of the one before it has been returned
AgentQuery ==
    /\ req.via = "none"
    /\ \E s \in Students, m \in MsgIds : query(s, m)

\* a request with image_context
AgentQueryImage ==
    /\ req.via = "none"
    /\ \E s \in Students, m \in ImageIds : query(s, m)

(***************************************************************************)
(* Exceptions inside SimpleAgent.query.  Spec covers the failures that a    *)
(* collaborator reports through its return value and the ones of            *)
(* update_quiz_status, the details step, save_quiz and the chat LLM.  Here  *)
(* a call raises at one of the other call sites, named by its line:         *)
(*   l778, l919  get_latest_pending_quiz     l807  get_quiz                 *)
(*   l815        check_quiz_submitted        l928  _show_quiz_content       *)
(*   l953        is_cheating                 l1059 generate_quiz            *)
(*   l1112       _extract_equation           l1125 generate_graph           *)
(* No table is written before any of these calls.                           *)
(***************************************************************************)
RaisePoints == {"l778", "l807", "l815", "l919", "l928", "l953", "l1059", "l1112", "l1125"}

\* variant: query() without its outermost try
EnclosingTry_NoOuter(point) ==
    IF point \in {"l807", "l815"} THEN "l806" ELSE "none"

\* the innermost try statement around the call site: lines 806-916 or lines 750-1291
EnclosingTry(point) ==
    IF point \in {"l807", "l815"} THEN "l806" ELSE "l750"

\* what the except clause of that try returns; without a handler the exception leaves query()
HandlerResponse(try_line) ==
    CASE try_line = "l806" -> "submit_exception"
      [] try_line = "l750" -> "error"
      [] OTHER -> "raised"

\* the calls made before the call site is reached; << >> when the request does not reach it
CallsBefore(s, m, point, llm) ==
    LET text == UserQuery(m)
        pending == get_latest_pending_quiz(quizzes, s)
        submit == _should_submit_quiz(text)
        guarded == /\ ~submit /\ pending # 0
                   /\ ~_should_view_quiz(text) /\ ~_should_create_quiz(text)
        passed == guarded /\ ~is_cheating(text, quizzes[pending], llm).is_blocked
        routed == ~submit /\ (pending = 0 \/ passed)
        c0 == IF passed THEN <<"guard">> ELSE << >>
    IN
    CASE point = "l778" /\ submit -> <<"get_latest_pending_quiz">>
      [] point = "l807" /\ submit /\ pending # 0 /\ _extract_answers(text) # << >>
            -> <<"get_quiz">>
      [] point = "l815" /\ submit /\ pending # 0 /\ _extract_answers(text) # << >>
            -> <<"get_quiz", "check_quiz_submitted">>
      [] point = "l919" /\ ~submit -> <<"get_latest_pending_quiz">>
      [] point = "l928" /\ ~submit /\ pending # 0 /\ _should_view_quiz(text)
            -> <<"show_quiz_content">>
      [] point = "l953" /\ guarded -> <<"guard">>
      [] point = "l1059" /\ routed /\ _should_create_quiz(text)
            -> c0 \o <<"extract_topic", "generate_quiz">>
      [] point \in {"l1112", "l1125"} /\ routed /\ ~_should_create_quiz(text)
                                      /\ _should_draw_graph(text)
            -> c0 \o <<"graph">>
      [] OTHER -> << >>

query_raising(s, m, point) ==
    \E llm \in GuardLLMAnswers :
        /\ CallsBefore(s, m, point, llm) # << >>
        /\ Return(s, m, [NoEnv EXCEPT !.fail_at = point], HandlerResponse(EnclosingTry(point)),
                  NoReason, CallsBefore(s, m, point, llm), quizzes, submissions)

AgentQueryRaising ==
    /\ req.via = "none"
    /\ \E s \in Students, m \in MsgIds, point \in RaisePoints : query_raising(s, m, point)

(***************************************************************************)
(* POST /api/submission/submit (src/src/api/app.py): one whole request     *)
(***************************************************************************)
RestAnswers == {Key1, Ans9}
RestFailures == {"none", "insert", "update"}

RestReturn(s, q, answers, e, kind, c, qs, ss) ==
    /\ quizzes' = qs
    /\ submissions' = ss
    /\ req' = [via |-> "rest", student_id |-> s, msg |-> 0, quiz_id |-> q,
               answers |-> answers]
    /\ env' = e
    /\ resp' = [kind |-> kind, reason |-> NoReason]
    /\ calls' = c
    /\ UNCHANGED procs

rest_submit_quiz(s, q, answers) ==
    IF get_quiz(quizzes, q) = 0
    THEN RestReturn(s, q, answers, NoEnv, "http_404", << >>, quizzes, submissions)
    ELSE IF quizzes[q].student_id # s
    THEN RestReturn(s, q, answers, NoEnv, "http_403", << >>, quizzes, submissions)
    ELSE IF quizzes[q].status # "pending"
    THEN RestReturn(s, q, answers, NoEnv, "http_400_submitted", << >>, quizzes, submissions)
    ELSE IF check_quiz_submitted(submissions, q, s)
    THEN RestReturn(s, q, answers, NoEnv, "http_400_submitted", << >>, quizzes, submissions)
    ELSE IF Len(answers) # RequiredAnswers
    THEN RestReturn(s, q, answers, NoEnv, "http_400_answers", << >>, quizzes, submissions)
    ELSE IF quizzes[q].answer_key = << >>
    THEN RestReturn(s, q, answers, NoEnv, "http_500_key", << >>, quizzes, submissions)
    ELSE
        \E f \in RestFailures :
            LET e == [NoEnv EXCEPT !.fail_at = f]
                inserted == submit_quiz(submissions, q, s, answers, quizzes[q].answer_key)
            IN
            IF f = "insert"
            THEN RestReturn(s, q, answers, e, "http_500_submit", <<"submit_quiz">>,
                            quizzes, submissions)
            ELSE IF f = "update"
            THEN RestReturn(s, q, answers, e, "http_500_internal",
                            <<"submit_quiz", "update_quiz_status">>, quizzes, inserted)
            ELSE RestReturn(s, q, answers, e, "http_200",
                            <<"submit_quiz", "update_quiz_status">>,
                            update_quiz_status(quizzes, q, "completed"), inserted)

RestSubmit ==
    /\ req.via = "none"
    /\ \E s \in Students, q \in 1..MaxQuizzes, answers \in RestAnswers :
        rest_submit_quiz(s, q, answers)

(***************************************************************************)
(* QuizGuard.is_cheating called alone, on queries and quiz contents         *)
(***************************************************************************)
Query(words) == [words |-> words, pairs |-> NoPairs]

GuardQueries ==
    { Query(<<"Caau", "3">>),                       \* Câu 3
      Query(<<"CAAU", "3">>),                       \* CÂU 3
      Query(<<"giair", "caau", "3", "ddi">>),       \* giải câu 3 đi
      Query(<<"caau", "soos", "3">>),               \* câu số 3
      Query(<<"caau", "hoir">>),                    \* câu hỏi
      Query(<<"3", "caau">>),                       \* 3 câu
      Query(<<"ddaps", "asn">>),                    \* đáp án
      Query(<<"chonj", "A">>),                      \* chọn A
      Query(<<"Chonj", "B">>),                      \* Chọn B
      Query(<<"neen", "chonj", "C", "hay", "D">>),  \* nên chọn C hay D
      Query(<<"chonj", "lojc", "tuwj", "nhieen">>), \* chọn lọc tự nhiên
      Query(<<"gen", "laf", "gif">>),               \* the text of question 1
      Query(<<"Gen", "laf", "gif">>),
      Query(<<"adn", "cos", "mayj", "machj">>),     \* the text of question 2
      Query(<<"gen", "laf", "gif", "vaayj">>),      \* similarity 3/4
      Query(<<"adn", "cos", "mayj", "machj", "ddown">>), \* similarity 4/5
      Query(<<"gen", "laf">>),                      \* similarity 2/3
      Query(<<"adn", "cos", "mayj">>),              \* similarity 3/4
      Query(<<"gen", "laf", "gif", "vaf", "adn">>), \* similarity 3/5, not above 0.6
      Query(<<"gen">>),                             \* similarity 1/3
      Query(<<"adn">>),
      Query(<<"arn", "laf", "gif">>) }

\* the question texts without options in bold: no marker ends a match
ContentPlainOptions ==
    << [kind |-> "head", words |-> <<"##", "**Caau", "1**:">>],
       [kind |-> "text", words |-> <<"gen", "laf", "gif">>],
       [kind |-> "text", words |-> <<"A.", "adn", "B.", "arn">>],
       [kind |-> "head", words |-> <<"##", "**Caau", "2**:">>],
       [kind |-> "text", words |-> <<"adn", "cos", "mayj", "machj">>] >>

ContentOneQuestion ==
    << [kind |-> "head", words |-> <<"##", "**Caau", "1**:">>],
       [kind |-> "text", words |-> <<"arn", "laf", "gif">>],
       [kind |-> "opt", words |-> <<"**A.**", "adn">>] >>

ContentNoQuestion == << [kind |-> "title", words |-> <<"#", "ddeef", "kieerm", "tra">>] >>

GuardContents == {Content1, ContentPlainOptions, ContentOneQuestion, ContentNoQuestion}

GeneratorFormat(content) == content \in {Content1, ContentOneQuestion}

\* variant: the LLM classification is made for every query
GuardLayers_AlwaysLLM(text, quiz) == <<"explicit", "similarity", "llm">>

\* the layers is_cheating runs, in order, until one returns
GuardLayers(text, quiz) ==
    IF _has_explicit_cheating(text) THEN <<"explicit">>
    ELSE IF SimilarityBlocks(text, quiz) THEN <<"explicit", "similarity">>
    ELSE <<"explicit", "similarity", "llm">>

GuardCall ==
    /\ req.via = "none"
    /\ \E text \in GuardQueries, content \in GuardContents :
        LET quiz == [content |-> content] IN
        \E llm \in (IF ReachesLLM(text, quiz) THEN GuardLLMAnswers ELSE {"-"}) :
            /\ req' = [via |-> "guard", student_id |-> "-", msg |-> 0, quiz_id |-> 0,
                       answers |-> << >>, text |-> text, quiz |-> quiz]
            /\ env' = [NoEnv EXCEPT !.guard_llm = llm]
            /\ resp' = [kind |-> "verdict", reason |-> "-",
                        verdict |-> is_cheating(text, quiz, llm)]
            /\ calls' = GuardLayers(text, quiz)
    /\ UNCHANGED <<quizzes, submissions, procs>>

(***************************************************************************)
(* One QuizGuard instance and its cache (quiz_guard.py 15-17, 113-207).    *)
(* Here env holds the instance: cache, a function from cache keys to the    *)
(* stored results; calls is the log of the _llm_classify calls made on it.  *)
(* A quiz id is "quiz_<timestamp>_<hex>" (quiz_storage.py:160) and holds no *)
(* ":"; a query is any text, given as its tokens.                           *)
(***************************************************************************)
MaxGuardCalls == 4

CacheQuizIds == {"quiz_1", "quiz_2"}

CacheQueries == { <<"gen">>, <<":", "gen">> }

\* variant: the key is the text alone
cache_key_QueryOnly(quiz_id, text) == text

\* f"{quiz['id']}:{query}"
cache_key(quiz_id, text) == <<quiz_id, ":">> \o text

\* self.cache[cache_key] = result
CacheStore(cache, key, result) ==
    [k \in DOMAIN cache \cup {key} |-> IF k = key THEN result ELSE cache[k]]

\* variant: the result of the except branch is stored as well
_llm_classify_cached_StoreErrors(cache, text, quiz_id, llm) ==
    LET key == cache_key(quiz_id, text) IN
    IF key \in DOMAIN cache
    THEN [result |-> cache[key], cache |-> cache, called |-> FALSE]
    ELSE [result |-> _llm_classify(llm),
          cache |-> CacheStore(cache, key, _llm_classify(llm)), called |-> TRUE]

\* lines 119-207: the cached result, or the LLM call whose result is stored
\* unless the call raised
_llm_classify_cached(cache, text, quiz_id, llm) ==
    LET key == cache_key(quiz_id, text) IN
    IF key \in DOMAIN cache
    THEN [result |-> cache[key], cache |-> cache, called |-> FALSE]
    ELSE [result |-> _llm_classify(llm),
          cache |-> IF llm = "error" THEN cache
                    ELSE CacheStore(cache, key, _llm_classify(llm)),
          called |-> TRUE]

\* QuizGuard.__init__: self.cache = {}
InitGuard ==
    /\ quizzes = << >>
    /\ submissions = << >>
    /\ req = [via |-> "none", student_id |-> "-", msg |-> 0, quiz_id |-> 0, answers |-> << >>]
    /\ env = [guard_llm |-> "-", cache |-> << >>]
    /\ resp = [kind |-> "none", reason |-> "-"]
    /\ calls = << >>
    /\ procs = [p \in Procs |-> [pc |-> "idle"]]

\* one call that reaches layer 3
ClassifyCall ==
    /\ Len(calls) < MaxGuardCalls
    /\ \E quiz_id \in CacheQuizIds, text \in CacheQueries, llm \in GuardLLMAnswers :
        LET out == _llm_classify_cached(env.cache, text, quiz_id, llm)
            answer == IF out.called THEN llm ELSE "-"
        IN
        /\ req' = [via |-> "classify", student_id |-> "-", msg |-> 0, quiz_id |-> 0,
                   answers |-> << >>, quiz |-> quiz_id, text |-> text]
        /\ env' = [guard_llm |-> answer, cache |-> out.cache]
        /\ resp' = [kind |-> "verdict", reason |-> "-", verdict |-> out.result]
        /\ calls' = Append(calls, [quiz |-> quiz_id, text |-> text, llm |-> answer,
                                   called |-> out.called, result |-> out.result])
    /\ UNCHANGED <<quizzes, submissions, procs>>

NextClassify == ClassifyCall

SpecClassify == InitGuard /\ [][NextClassify]_vars

(***************************************************************************)
(* The daily count of submit_quiz (submission_manager.py:63-78, 136-200)    *)
(* over the hours around midnight.  The clock counts the hours since        *)
(* 00:00 UTC of day 0; the server's local time is utc_offset hours ahead    *)
(* of UTC (0 for a server kept on UTC, 7 for Asia/Ho_Chi_Minh).             *)
(***************************************************************************)
FirstHour == 15

MaxClock == 12

MaxDailySubs == 3

UtcOffsets == {0, 7}

\* line 68: datetime.now().strftime("%Y-%m-%d"), the date of the local time
LocalDate(clock, utc_offset) == (clock + utc_offset) \div 24

\* lines 140, 197: datetime.now(timezone.utc).isoformat(), date and time in UTC
IsoFormatUtc(clock) == [date |-> clock \div 24, time |-> clock % 24]

\* lines 70-75: COUNT(*) WHERE student_id = ? AND submitted_at LIKE 'today%'
_get_today_submission_count(rows, student_id, today) ==
    Cardinality({i \in DOMAIN rows :
                    /\ rows[i].student_id = student_id
                    /\ rows[i].submitted_at.date = today})

InitDaily ==
    /\ quizzes = << >>
    /\ submissions = << >>
    /\ req = [via |-> "none", student_id |-> "-", msg |-> 0, quiz_id |-> 0, answers |-> << >>]
    /\ \E utc_offset \in UtcOffsets : env = [clock |-> FirstHour, utc_offset |-> utc_offset]
    /\ resp = [kind |-> "none", reason |-> "-", daily_count |-> 0]
    /\ calls = << >>
    /\ procs = [p \in Procs |-> [pc |-> "idle"]]

\* an hour passes
Tick ==
    /\ env.clock < FirstHour + MaxClock
    /\ env' = [env EXCEPT !.clock = @ + 1]
    /\ UNCHANGED <<quizzes, submissions, req, resp, calls, procs>>

\* lines 132-212: the count, the row with submitted_at in UTC, the result
SubmitDaily ==
    /\ Len(submissions) < MaxDailySubs
    /\ \E s \in Students, failure \in {"-"} \cup SubmitQuizFailures :
        LET daily_count ==
                _get_today_submission_count(submissions, s,
                                            LocalDate(env.clock, env.utc_offset)) + 1
            now == env.clock
            row == [student_id |-> s, daily_count |-> daily_count,
                    submitted_at |-> IsoFormatUtc(now)]
        IN
        /\ submissions' = IF failure = "-" THEN Append(submissions, row) ELSE submissions
        /\ req' = [via |-> "submit_quiz", student_id |-> s, msg |-> 0, quiz_id |-> 0,
                   answers |-> << >>]
        /\ resp' = IF failure = "-"
                   THEN [kind |-> "submitted", reason |-> "-", daily_count |-> daily_count]
                   ELSE [kind |-> "error", reason |-> failure, daily_count |-> 0]
    /\ UNCHANGED <<quizzes, env, calls, procs>>

NextDaily == Tick \/ SubmitDaily

SpecDaily == InitDaily /\ [][NextDaily]_vars

(***************************************************************************)
(* The duration of submit_quiz (submission_manager.py:149-183).  Instants   *)
(* are counted in parts of a second: now is datetime.now(timezone.utc),     *)
(* with its fraction of a second; created_at is the column default          *)
(* CURRENT_TIMESTAMP of the quizzes table (quiz_storage.py:44), written as  *)
(* "YYYY-MM-DD HH:MM:SS" in UTC, whole seconds.                             *)
(***************************************************************************)
SecondParts == 2

MaxElapsedSeconds == 125

MaxSkewSeconds == 1

\* quiz_storage.py:44: the instant of the insert, its fraction of a second dropped
CURRENT_TIMESTAMP(instant) == (instant \div SecondParts) * SecondParts

\* lines 149-183: 0 without a created_at; otherwise delta = now - created_at and
\* max(0, int((delta.total_seconds() + 59) // 60))
duration_minutes(now, row) ==
    IF ~row.found THEN 0
    ELSE LET delta == now - row.created_at
         IN Max({0, (delta + 59 * SecondParts) \div (60 * SecondParts)})

\* a quiz created at some instant of a second and submitted some time later
DurationCall ==
    /\ req.via = "none"
    /\ \E created \in (MaxSkewSeconds * SecondParts)..((MaxSkewSeconds + 1) * SecondParts - 1),
          elapsed \in (-MaxSkewSeconds * SecondParts)..(MaxElapsedSeconds * SecondParts),
          found \in BOOLEAN :
        LET now == created + elapsed
            row == [found |-> found, created_at |-> CURRENT_TIMESTAMP(created)]
        IN
        /\ req' = [via |-> "duration", student_id |-> "-", msg |-> 0, quiz_id |-> 0,
                   answers |-> << >>, created |-> created, now |-> now, row |-> row]
        /\ resp' = [kind |-> "submitted", reason |-> "-",
                    duration |-> duration_minutes(now, row)]
    /\ UNCHANGED <<quizzes, submissions, env, calls, procs>>

(***************************************************************************)
(* Requests processed one at a time                                        *)
(***************************************************************************)
IdleProc ==
    [pc |-> "idle", student_id |-> "-", msg |-> 0, pending |-> 0, answers |-> << >>,
     subject |-> "-", topic |-> "-", quiz_id |-> 0, result |-> "-"]

NoRequest ==
    [via |-> "none", student_id |-> "-", msg |-> 0, quiz_id |-> 0, answers |-> << >>]

NoResponse == [kind |-> "none", reason |-> NoReason]

Init ==
    /\ quizzes = << >>
    /\ submissions = << >>
    /\ req = NoRequest
    /\ env = NoEnv
    /\ resp = NoResponse
    /\ calls = << >>
    /\ procs = [p \in Procs |-> IdleProc]

\* the response is returned to the caller; the tables stay as the request left them
ReturnResponse ==
    /\ req.via # "none"
    /\ req' = NoRequest
    /\ env' = NoEnv
    /\ resp' = NoResponse
    /\ calls' = << >>
    /\ UNCHANGED <<quizzes, submissions, procs>>

Next == AgentQuery \/ RestSubmit \/ ReturnResponse

Spec == Init /\ [][Next]_vars

\* the same requests, with the calls that raise
NextRaising == Next \/ AgentQueryRaising

SpecRaising == Init /\ [][NextRaising]_vars

\* calls of grade_submission alone
NextGrade == GradeCall \/ ReturnResponse

SpecGrade == Init /\ [][NextGrade]_vars

\* calls of is_cheating alone
NextGuard == GuardCall \/ ReturnResponse

SpecGuard == Init /\ [][NextGuard]_vars

NextDetails == DetailsCall \/ ReturnResponse

SpecDetails == Init /\ [][NextDetails]_vars

NextReport == ReportCall \/ ReturnResponse

SpecReport == Init /\ [][NextReport]_vars

NextKey == ExtractKeyCall \/ ReturnResponse

SpecKey == Init /\ [][NextKey]_vars

NextGen == GenerateCall \/ ReturnResponse

SpecGen == Init /\ [][NextGen]_vars

(***************************************************************************)
(* Requests processed one at a time, each response eventually returned:    *)
(* query() makes a bounded number of calls, each with a timeout.           *)
(***************************************************************************)
SpecPersistent == Init /\ [][Next]_vars /\ WF_vars(ReturnResponse)

NextShow == ShowCall \/ ReturnResponse

SpecShow == Init /\ [][NextShow]_vars

NextSearch == SearchDecisionCall \/ ReturnResponse

SpecSearch == Init /\ [][NextSearch]_vars

NextDuration == DurationCall \/ ReturnResponse

SpecDuration == Init /\ [][NextDuration]_vars

NextIntent == ShouldSubmitCall \/ ReturnResponse

SpecIntent == Init /\ [][NextIntent]_vars

NextImage == Next \/ AgentQueryImage

SpecImage == Init /\ [][NextImage]_vars

(***************************************************************************)
(* Concurrent requests (one worker per request, src/gunicorn_config.py):   *)
(* SimpleAgent.query of a submission or a create-quiz message, one step    *)
(* per blocking call on the database or the LLM.  Every call on the        *)
(* database is a transaction of its own; the tables have no constraint     *)
(* over student_id, status or (quiz_id, student_id).                       *)
(***************************************************************************)
ConcMsgs == {1, 6}

SetProc(p, r) ==
    /\ procs' = [procs EXCEPT ![p] = r]
    /\ UNCHANGED <<req, env, resp, calls>>

Done(p, kind) == [procs[p] EXCEPT !.pc = "done", !.result = kind]

\* a request arrives and a worker starts query()
ConcStart(p) ==
    /\ procs[p].pc = "idle"
    /\ \E s \in Students, m \in ConcMsgs :
        SetProc(p, [IdleProc EXCEPT !.student_id = s, !.msg = m,
                       !.pc = IF _should_submit_quiz(Messages[m]) THEN "l778" ELSE "l919"])
    /\ UNCHANGED <<quizzes, submissions>>

\* lines 778-804: get_latest_pending_quiz, _extract_answers
Conc_l778(p) ==
    /\ procs[p].pc = "l778"
    /\ LET pending == get_latest_pending_quiz(quizzes, procs[p].student_id)
           answers == _extract_answers(Messages[procs[p].msg])
       IN SetProc(p, IF pending = 0 THEN Done(p, "no_pending")
                     ELSE IF answers = << >> THEN Done(p, "bad_answers")
                     ELSE [procs[p] EXCEPT !.pc = "l807", !.pending = pending,
                                           !.answers = answers])
    /\ UNCHANGED <<quizzes, submissions>>

\* lines 807-831: get_quiz, check_quiz_submitted, answer key
Conc_l807(p) ==
    /\ procs[p].pc = "l807"
    /\ SetProc(p, IF get_quiz(quizzes, procs[p].pending) = 0
                  THEN Done(p, "quiz_not_found")
                  ELSE IF check_quiz_submitted(submissions, procs[p].pending,
                                               procs[p].student_id)
                  THEN Done(p, "already_submitted")
                  ELSE IF quizzes[procs[p].pending].answer_key = << >>
                  THEN Done(p, "missing_key")
                  ELSE [procs[p] EXCEPT !.pc = "l833"])
    /\ UNCHANGED <<quizzes, submissions>>

\* lines 833-844: submit_quiz inserts the row, or fails and returns success = False
Conc_l833(p) ==
    /\ procs[p].pc = "l833"
    /\ \/ /\ Len(submissions) < MaxSubmissions
          /\ submissions' = submit_quiz(submissions, procs[p].pending, procs[p].student_id,
                                        procs[p].answers,
                                        quizzes[procs[p].pending].answer_key)
          /\ SetProc(p, [procs[p] EXCEPT !.pc = "l846"])
       \/ /\ submissions' = submissions
          /\ SetProc(p, Done(p, "submit_failed"))
    /\ UNCHANGED quizzes

\* line 846: update_quiz_status, or it raises and the handler of line 911 answers
Conc_l846(p) ==
    /\ procs[p].pc = "l846"
    /\ \/ /\ quizzes' = update_quiz_status(quizzes, procs[p].pending, "completed")
          /\ SetProc(p, Done(p, "submitted"))
       \/ /\ quizzes' = quizzes
          /\ SetProc(p, Done(p, "submit_exception"))
    /\ UNCHANGED submissions

\* lines 919-951: get_latest_pending_quiz, view, create refusal
Conc_l919(p) ==
    /\ procs[p].pc = "l919"
    /\ LET pending == get_latest_pending_quiz(quizzes, procs[p].student_id)
           text == Messages[procs[p].msg]
       IN SetProc(p, IF pending # 0 /\ _should_view_quiz(text) THEN Done(p, "view")
                     ELSE IF pending # 0 /\ _should_create_quiz(text)
                     THEN Done(p, "create_refused")
                     ELSE [procs[p] EXCEPT !.pc = "l979"])
    /\ UNCHANGED <<quizzes, submissions>>

\* lines 979-1073: extract_topic_from_query, validation, generate_quiz
Conc_l979(p) ==
    /\ procs[p].pc = "l979"
    /\ \E llm \in LLMQuizInfos, g \in ConcGenOutcomes :
        LET quiz_info == extract_topic_from_query(llm)
            result == generate_quiz(GenScenario(g))
        IN
        SetProc(p, IF ~quiz_info.ok THEN Done(p, "not_understood")
                   ELSE IF ~Truthy(quiz_info.subject) THEN Done(p, "no_subject")
                   ELSE IF quiz_info.subject \notin ALLOWED_QUIZ_SUBJECTS
                   THEN Done(p, "unsupported_subject")
                   ELSE IF TopicTooShort(quiz_info.topic) THEN Done(p, "no_topic")
                   ELSE IF ~result.success THEN Done(p, "generate_failed")
                   ELSE IF KeyMissing(result) THEN Done(p, "no_key")
                   ELSE [procs[p] EXCEPT !.pc = "l1075", !.subject = quiz_info.subject,
                                         !.topic = quiz_info.topic])
    /\ UNCHANGED <<quizzes, submissions>>

\* lines 1075-1099: save_quiz inserts the row, or raises; the response is the same
Conc_l1075(p) ==
    /\ procs[p].pc = "l1075"
    /\ \/ /\ Len(quizzes) < MaxQuizzes
          /\ quizzes' = save_quiz(quizzes, procs[p].student_id, Content1, Key1,
                                  procs[p].subject, procs[p].topic)
          /\ SetProc(p, [Done(p, "created") EXCEPT !.quiz_id = Len(quizzes')])
       \/ /\ quizzes' = quizzes
          /\ SetProc(p, Done(p, "created"))
    /\ UNCHANGED submissions

\* the response is returned and the worker takes the next request
ConcReturn(p) ==
    /\ procs[p].pc = "done"
    /\ SetProc(p, IdleProc)
    /\ UNCHANGED <<quizzes, submissions>>

NextConc ==
    \E p \in Procs :
        \/ ConcStart(p)
        \/ Conc_l778(p)
        \/ Conc_l807(p)
        \/ Conc_l833(p)
        \/ Conc_l846(p)
        \/ Conc_l919(p)
        \/ Conc_l979(p)
        \/ Conc_l1075(p)
        \/ ConcReturn(p)

SpecConc == Init /\ [][NextConc]_vars

(***************************************************************************)
(* The daily-evaluation notification (query.py 848-862): a request handled *)
(* by worker "p1" and the daemon thread it starts, "p2".  The thread runs   *)
(* call_daily, one GET on /api/stats/daily with timeout = 5, whose handler  *)
(* (src/api/app.py, get_daily_evaluation) reads the submissions and writes  *)
(* the evaluations table only.  A new request is taken when the thread of   *)
(* the previous one has ended: one notification is in flight at a time.     *)
(***************************************************************************)
Handler == "p1"
Notifier == "p2"

\* what requests.get does: a response, a connection error, the timeout
DailyOutcomes == {"ok", "error", "timeout"}

NotifyStart ==
    /\ procs[Notifier].pc = "idle"
    /\ ConcStart(Handler)

\* line 846: update_quiz_status, or it raises and the handler of line 911 answers
Notify_l846 ==
    /\ procs[Handler].pc = "l846"
    /\ \/ /\ quizzes' = update_quiz_status(quizzes, procs[Handler].pending, "completed")
          /\ SetProc(Handler, [procs[Handler] EXCEPT !.pc = "l861"])
       \/ /\ quizzes' = quizzes
          /\ SetProc(Handler, Done(Handler, "submit_exception"))
    /\ UNCHANGED submissions

\* lines 860-861: threading.Thread(target = call_daily, daemon = True).start()
Notify_l861 ==
    /\ procs[Handler].pc = "l861"
    /\ procs' = [procs EXCEPT ![Handler].pc = "l864",
                              ![Notifier] = [IdleProc EXCEPT !.pc = "call_daily",
                                                 !.student_id = procs[Handler].student_id]]
    /\ UNCHANGED <<quizzes, submissions, req, env, resp, calls>>

\* lines 864-909: get_submission_with_details and the response; no join() on
\* the thread.  An exception goes to the handler of line 911.
Notify_l864 ==
    /\ procs[Handler].pc = "l864"
    /\ \/ SetProc(Handler, Done(Handler, "submitted"))
       \/ SetProc(Handler, Done(Handler, "submit_exception"))
    /\ UNCHANGED <<quizzes, submissions>>

\* variant: an error or a timeout of the GET puts the quiz back to pending
call_daily_Undoing(qs, student_id, outcome) ==
    IF outcome = "ok" THEN qs
    ELSE [i \in DOMAIN qs |->
            IF qs[i].student_id = student_id THEN [qs[i] EXCEPT !.status = "pending"]
            ELSE qs[i]]

\* lines 848-858: call_daily prints the status code, or the exception caught by
\* its own try; the quizzes table is as before
call_daily(qs, student_id, outcome) == qs

ThreadRun ==
    /\ procs[Notifier].pc = "call_daily"
    /\ \E outcome \in DailyOutcomes :
        /\ quizzes' = call_daily(quizzes, procs[Notifier].student_id, outcome)
        /\ SetProc(Notifier, [procs[Notifier] EXCEPT !.pc = "ended", !.result = outcome])
    /\ UNCHANGED submissions

ThreadExit ==
    /\ procs[Notifier].pc = "ended"
    /\ SetProc(Notifier, IdleProc)
    /\ UNCHANGED <<quizzes, submissions>>

NextNotify ==
    \/ NotifyStart
    \/ Conc_l778(Handler)
    \/ Conc_l807(Handler)
    \/ Conc_l833(Handler)
    \/ Notify_l846
    \/ Notify_l861
    \/ Notify_l864
    \/ Conc_l919(Handler)
    \/ Conc_l979(Handler)
    \/ Conc_l1075(Handler)
    \/ ConcReturn(Handler)
    \/ ThreadRun
    \/ ThreadExit

SpecNotify == Init /\ [][NextNotify]_vars

(***************************************************************************)
(* Properties                                                              *)
(***************************************************************************)
SubsOf(ss, quiz_id, student_id) ==
    {i \in DOMAIN ss : ss[i].quiz_id = quiz_id /\ ss[i].student_id = student_id}

Called(c, name) == \E i \in DOMAIN c : c[i] = name

AgentRequest(s) == req'.via = "agent" /\ req'.student_id = s

\* C1: with requests processed one at a time every student has at most one
\* pending quiz, and a create-quiz message of a student who has a pending quiz
\* saves no quiz row and is answered with the refusal (unless the message is
\* taken as a submission or as a view request first).
C1_Step ==
    /\ \A s \in Students : Cardinality(PendingOf(quizzes', s)) <= 1
    /\ \A s \in Students :
        (/\ AgentRequest(s)
         /\ PendingOf(quizzes, s) # {}
         /\ _should_create_quiz(Messages[req'.msg]))
        => /\ quizzes' = quizzes
           /\ resp'.kind # "created"
           /\ ~Called(calls', "save_quiz")
           /\ (~_should_submit_quiz(Messages[req'.msg]) /\ ~_should_view_quiz(Messages[req'.msg])
                  => resp'.kind = "create_refused")

C1_AtMostOnePending == [][C1_Step]_vars

C1_Witness ==
    /\ resp.kind = "create_refused"
    /\ Cardinality(PendingOf(quizzes, req.student_id)) = 1
    /\ Len(quizzes) >= 1

\* C2: with submission attempts processed one at a time there is at most one
\* Submission per (quiz, student), and an attempt for a pair that has a
\* Submission is rejected and inserts no row.
C2_Step ==
    /\ \A q \in 1..Len(quizzes'), s \in Students :
            Cardinality(SubsOf(submissions', q, s)) <= 1
    /\ \A s \in Students :
        LET pending == get_latest_pending_quiz(quizzes, s) IN
        (/\ AgentRequest(s)
         /\ _should_submit_quiz(Messages[req'.msg])
         /\ pending # 0
         /\ SubsOf(submissions, pending, s) # {})
        => /\ submissions' = submissions
           /\ resp'.kind \in {"bad_answers", "already_submitted"}
    /\ (req'.via = "rest" /\ SubsOf(submissions, req'.quiz_id, req'.student_id) # {})
        => /\ submissions' = submissions
           /\ resp'.kind = "http_400_submitted"

C2_AtMostOneSubmission == [][C2_Step]_vars

C2_Witness ==
    /\ resp.kind = "http_400_submitted"
    /\ Cardinality(SubsOf(submissions, req.quiz_id, req.student_id)) = 1

\* C3: while the student has a pending quiz a message reaches graph, search or
\* chat only after the guard was consulted first on that message and did not
\* block; when the guard blocks, the response carries the guard's reason and
\* neither graph nor search nor the chat LLM is called.
ReachedAnswering(c) == Called(c, "graph") \/ Called(c, "search") \/ Called(c, "chat_llm")

C3_Step ==
    \A s \in Students :
        LET pending == get_latest_pending_quiz(quizzes, s)
            verdict == is_cheating(Messages[req'.msg], quizzes[pending], env'.guard_llm)
        IN
        (AgentRequest(s) /\ pending # 0)
        => /\ ReachedAnswering(calls')
                => calls'[1] = "guard" /\ ~verdict.is_blocked
           /\ (Called(calls', "guard") /\ verdict.is_blocked)
                => /\ resp'.kind = "guard_blocked"
                   /\ resp'.reason = verdict.reason
                   /\ calls' = <<"guard">>
           /\ resp'.kind = "guard_blocked" => Called(calls', "guard") /\ verdict.is_blocked

C3_GuardBeforeAnswering == [][C3_Step]_vars

C3_Witness ==
    /\ req.via = "agent"
    /\ PendingOf(quizzes, req.student_id) # {}
    /\ Len(calls) >= 2
    /\ calls[1] = "guard"
    /\ calls[2] = "search"
    /\ env.guard_llm = "NO"

\* C4: every quiz that has a Submission row has status completed, in every
\* state between requests.
C4_SubmissionFlipsQuiz ==
    \A i \in DOMAIN submissions : quizzes[submissions[i].quiz_id].status = "completed"

\* C5: a quiz row is created pending; it becomes completed only in a request
\* that has just inserted a Submission for it, so every completed quiz has a
\* Submission; no request turns a completed quiz back to pending, changes
\* another field of a row or deletes a row.
C5_Step ==
    /\ Len(quizzes') >= Len(quizzes)
    /\ \A i \in DOMAIN quizzes' :
        IF i \in DOMAIN quizzes
        THEN /\ [quizzes'[i] EXCEPT !.status = "-"] = [quizzes[i] EXCEPT !.status = "-"]
             /\ quizzes[i].status = "completed" => quizzes'[i].status = "completed"
             /\ (quizzes[i].status = "pending" /\ quizzes'[i].status = "completed")
                    => /\ Len(submissions') = Len(submissions) + 1
                       /\ submissions'[Len(submissions')].quiz_id = i
        ELSE quizzes'[i].status = "pending"
    /\ \A i \in DOMAIN quizzes' :
        quizzes'[i].status = "completed"
            => SubsOf(submissions', i, quizzes'[i].student_id) # {}

C5_QuizLifecycle == [][C5_Step]_vars

C5_Witness ==
    /\ resp.kind = "submitted"
    /\ \E i \in DOMAIN quizzes :
        /\ quizzes[i].status = "completed"
        /\ quizzes[i].student_id = req.student_id
        /\ SubsOf(submissions, i, req.student_id) # {}

\* C6: with concurrent create-quiz requests the Ledger accepts every save,
\* whatever pending rows the student already has: a save that returns a quiz
\* id has appended a pending row for the student.  Two requests of one student
\* can both read "no pending quiz" before either saves, and then the student
\* has two pending quizzes (C6_Witness).
C6_Step ==
    \A p \in Procs :
        (procs[p].pc = "l1075" /\ procs'[p].pc = "done" /\ procs'[p].quiz_id # 0)
        => /\ Len(quizzes') = Len(quizzes) + 1
           /\ procs'[p].quiz_id = Len(quizzes')
           /\ quizzes'[Len(quizzes')].student_id = procs[p].student_id
           /\ quizzes'[Len(quizzes')].status = "pending"
           /\ \A i \in DOMAIN quizzes : quizzes'[i] = quizzes[i]

C6_LedgerAcceptsConcurrentSaves == [][C6_Step]_vars

C6_Witness ==
    \E s \in Students :
        /\ Cardinality(PendingOf(quizzes, s)) = 2
        /\ \A p \in Procs :
            /\ procs[p].student_id = s
            /\ procs[p].result = "created"
            /\ procs[p].quiz_id \in PendingOf(quizzes, s)
        /\ procs["p1"].quiz_id # procs["p2"].quiz_id

\* C7: with concurrent submission requests an insert that succeeds appends a
\* Submission row for the (quiz, student) pair of the request, whatever rows
\* the pair already has.  Two requests for one pair can both pass the
\* already-submitted check before either inserts, and then the pair has two
\* Submission rows (C7_Witness).
C7_Step ==
    \A p \in Procs :
        (procs[p].pc = "l833" /\ procs'[p].pc = "l846")
        => /\ Len(submissions') = Len(submissions) + 1
           /\ submissions'[Len(submissions')].quiz_id = procs[p].pending
           /\ submissions'[Len(submissions')].student_id = procs[p].student_id
           /\ \A i \in DOMAIN submissions : submissions'[i] = submissions[i]

C7_GraderAcceptsConcurrentInserts == [][C7_Step]_vars

C7_Witness ==
    \E s \in Students, q \in DOMAIN quizzes :
        /\ Cardinality(SubsOf(submissions, q, s)) = 2
        /\ \A p \in Procs :
            /\ procs[p].student_id = s
            /\ procs[p].pending = q
            /\ procs[p].pc \in {"l846", "done"}

\* C8: within one request the steps are tried in the order submission intent,
\* pending-quiz handling (view, create refusal, guard), quiz creation, graph,
\* search, chat, and the first step that matches produces the response and is
\* the only one that calls its collaborators.
SubmissionKinds ==
    {"no_pending", "bad_answers", "quiz_not_found", "already_submitted", "missing_key",
     "submit_failed", "submit_exception", "submitted"}

CreateKinds ==
    {"not_understood", "no_subject", "unsupported_subject", "no_topic",
     "generate_failed", "no_key", "created"}

GraphKinds == {"graph_no_equation", "graph_ok", "graph_failed"}

StepTaken(r, c) ==
    CASE r.kind \in SubmissionKinds -> "submission"
      [] r.kind \in {"view", "create_refused", "guard_blocked"} -> r.kind
      [] r.kind \in CreateKinds -> "creation"
      [] r.kind \in GraphKinds -> "graph"
      [] OTHER -> IF Called(c, "search") THEN "search" ELSE "chat"

FirstMatchingStep(qs, s, text, llm) ==
    LET pending == get_latest_pending_quiz(qs, s) IN
    IF _should_submit_quiz(text) THEN "submission"
    ELSE IF pending # 0 /\ _should_view_quiz(text) THEN "view"
    ELSE IF pending # 0 /\ _should_create_quiz(text) THEN "create_refused"
    ELSE IF pending # 0 /\ is_cheating(text, qs[pending], llm).is_blocked THEN "guard_blocked"
    ELSE IF _should_create_quiz(text) THEN "creation"
    ELSE IF _should_draw_graph(text) THEN "graph"
    ELSE IF _should_use_tool(text) THEN "search"
    ELSE "chat"

C8_Step ==
    req'.via = "agent" =>
        LET step == FirstMatchingStep(quizzes, req'.student_id, Messages[req'.msg],
                                      env'.guard_llm)
        IN
        /\ StepTaken(resp', calls') = step
        /\ Called(calls', "submit_quiz") => step = "submission"
        /\ Called(calls', "extract_topic") => step = "creation"
        /\ Called(calls', "graph") => step = "graph"
        /\ Called(calls', "search") => step = "search"
        /\ Called(calls', "chat_llm") => step \in {"search", "chat"}

C8_FixedStepOrder == [][C8_Step]_vars

C8_Witness ==
    /\ req.via = "agent"
    /\ _should_create_quiz(Messages[req.msg])
    /\ _should_draw_graph(Messages[req.msg])
    /\ resp.kind = "created"
    /\ ~Called(calls, "graph")

\* C9: the submission flow checks, in this order, that a pending quiz exists,
\* that at least 10 (number, letter) pairs are parsed, that the quiz is found,
\* that it is not already submitted and that it carries an answer key; each
\* failed check has its own response, inserts no Submission row and changes no
\* quiz status.
SubmissionErrorKinds ==
    {"no_pending", "bad_answers", "quiz_not_found", "already_submitted", "missing_key"}

C9_Step ==
    (req'.via = "agent" /\ _should_submit_quiz(Messages[req'.msg])) =>
        LET s == req'.student_id
            text == Messages[req'.msg]
            pending == get_latest_pending_quiz(quizzes, s)
        IN
        /\ resp'.kind =
              (IF pending = 0 THEN "no_pending"
               ELSE IF Len(text.pairs) < 10 THEN "bad_answers"
               ELSE IF pending \notin DOMAIN quizzes THEN "quiz_not_found"
               ELSE IF SubsOf(submissions, pending, s) # {} THEN "already_submitted"
               ELSE IF quizzes[pending].answer_key = << >> THEN "missing_key"
               ELSE resp'.kind)
        /\ resp'.kind \in SubmissionKinds
        /\ resp'.kind \in SubmissionErrorKinds
            => /\ submissions' = submissions
               /\ quizzes' = quizzes
               /\ calls' = << >>
        /\ resp'.kind \notin SubmissionErrorKinds => Called(calls', "submit_quiz")

C9_SubmissionCheckOrder == [][C9_Step]_vars

C9_Witness ==
    /\ req.via = "agent"
    /\ resp.kind = "no_pending"
    /\ Len(Messages[req.msg].pairs) >= 10
    /\ quizzes # << >>
    /\ \A i \in DOMAIN submissions : submissions[i].student_id # req.student_id

\* C10: a create-quiz request whose extracted subject is missing or is not one
\* of the four supported subjects, or whose topic is missing or has fewer than
\* 3 characters after trimming, is rejected: the Quiz Generator is not called
\* and no quiz row is saved.
C10_Step ==
    (req'.via = "agent" /\ Called(calls', "extract_topic")) =>
        LET llm == env'.quiz_info
            no_topic == ~Truthy(llm.topic)
            no_subject == ~Truthy(llm.subject)
            unsupported == llm.subject \notin {"Toasn", "Vaatj lys", "Hoas hojc", "Sinh hojc"}
            short_topic == Len(Strip(Chars(llm.topic))) < 3
        IN
        /\ (~llm.ok \/ no_topic \/ no_subject \/ unsupported \/ short_topic)
            => /\ quizzes' = quizzes
               /\ ~Called(calls', "generate_quiz")
               /\ ~Called(calls', "save_quiz")
               /\ resp'.kind \in {"not_understood", "no_subject", "unsupported_subject",
                                  "no_topic"}
        /\ (llm.ok /\ ~no_topic /\ no_subject) => resp'.kind = "no_subject"
        /\ (llm.ok /\ ~no_topic /\ ~no_subject /\ unsupported)
            => resp'.kind = "unsupported_subject"
        /\ (llm.ok /\ ~no_topic /\ ~no_subject /\ ~unsupported /\ short_topic)
            => resp'.kind = "no_topic"
        /\ (llm.ok /\ ~no_topic /\ ~no_subject /\ ~unsupported /\ ~short_topic)
            => Called(calls', "generate_quiz")

C10_InvalidCreateRejected == [][C10_Step]_vars

C10_Witness ==
    /\ req.via = "agent"
    /\ resp.kind = "unsupported_subject"
    /\ env.quiz_info.subject = "Lichj suwr"
    /\ calls[Len(calls)] = "extract_topic"

\* C11: when the LLM call of the guard's classification layer fails, the
\* verdict is blocked with confidence 0.5 (50 percent) and method "error", and
\* the request is answered with the guard's refusal: no graph, search or chat
\* call is made for it.
C11_Step ==
    (req'.via = "agent" /\ env'.guard_llm = "error") =>
        LET pending == get_latest_pending_quiz(quizzes, req'.student_id)
            verdict == is_cheating(Messages[req'.msg], quizzes[pending], "error")
        IN
        /\ pending # 0
        /\ verdict.is_blocked
        /\ verdict.confidence = 50
        /\ verdict.method = "error"
        /\ resp'.kind = "guard_blocked"
        /\ resp'.reason = verdict.reason
        /\ calls' = <<"guard">>
        /\ quizzes' = quizzes /\ submissions' = submissions

C11_GuardFailsClosed == [][C11_Step]_vars

C11_Witness ==
    /\ req.via = "agent"
    /\ env.guard_llm = "error"
    /\ resp.kind = "guard_blocked"
    /\ ~_has_explicit_cheating(Messages[req.msg])

\* C12: SimpleAgent.query never raises: whatever collaborator fails, and
\* wherever, the request ends with a returned response (a value with the
\* fields response and final_query), never with an exception leaving query().
C12_QueryNeverRaises ==
    req.via = "agent" => resp.kind \notin {"raised", "none"}

C12_Witness ==
    /\ req.via = "agent"
    /\ env.fail_at = "l778"
    /\ resp.kind = "error"
    /\ calls = <<"get_latest_pending_quiz">>

\* C13: grade_submission returns round(10 * c / n, 2) (here in hundredths),
\* n the number of question numbers of the answer key and c the number of
\* them for which the student's letter equals the key's letter: 10.0 when the
\* answers equal a 10-entry key on every question, 0.0 when none matches and
\* for a malformed answer string (without raising), and never less after one
\* more answer has been made correct.
EntryNums(str) == {str.items[i].num : i \in {j \in DOMAIN str.items : str.items[j].dash}}

EntryLetter(str, num) ==
    Upper(str.items[Max({i \in DOMAIN str.items :
                            str.items[i].dash /\ str.items[i].num = num})].choice)

MadeCorrect(a, i, k) ==
    [a EXCEPT !.items[i].choice = EntryLetter(k, a.items[i].num)]

AsksQuestionNumber(words) ==
    \E i \in 1..(Len(words) - 1) :
        words[i] \in {"caau", "Caau", "CAAU"} /\ words[i + 1] \in {"3"}

C14_QuestionNumberBlocked ==
    (req.via = "guard" /\ AsksQuestionNumber(req.text.words)) =>
        /\ resp.verdict.is_blocked
        /\ resp.verdict.confidence = 100
        /\ resp.verdict.method = "explicit"
        /\ calls = <<"explicit">>
        /\ env.guard_llm = "-"

C14_Witness ==
    /\ req.via = "guard"
    /\ req.text.words = <<"CAAU", "3">>
    /\ req.quiz.content = ContentNoQuestion
    /\ resp.verdict.method = "explicit"

\* C15: for a quiz content in the Generator's format, a query that is a
\* verbatim copy of the text of one question has word-set Jaccard similarity 1
\* with it and is blocked; any query whose similarity with some question is
\* above 0.6 is blocked with confidence 0.98 (98 percent) and method
\* "similarity", unless the explicit layer blocked it first.
QuestionTexts(content) ==
    {content[i + 1].words : i \in {j \in 1..(Len(content) - 1) :
                                     content[j].kind = "head" /\ content[j + 1].kind = "text"}}

LowerSet(words) == {Lower(words[i]) : i \in DOMAIN words}

JaccardAbove60(words1, words2) ==
    LET a == LowerSet(words1)
        b == LowerSet(words2)
    IN a \cup b # {} /\ 10 * Cardinality(a \cap b) > 6 * Cardinality(a \cup b)

C15_SimilarQueryBlocked ==
    (req.via = "guard" /\ GeneratorFormat(req.quiz.content)) =>
        LET texts == QuestionTexts(req.quiz.content)
            copied == req.text.words \in texts
            similar == \E q \in texts : JaccardAbove60(req.text.words, q)
            by_explicit == resp.verdict.method = "explicit"
        IN
        /\ copied => similar /\ resp.verdict.is_blocked
        /\ (similar /\ ~by_explicit)
            => /\ resp.verdict.is_blocked
               /\ resp.verdict.confidence = 98
               /\ resp.verdict.method = "similarity"
               /\ calls = <<"explicit", "similarity">>
        /\ resp.verdict.method = "similarity" => similar

C15_Witness ==
    /\ req.via = "guard"
    /\ req.quiz.content = Content1
    /\ req.text.words = <<"adn", "cos", "mayj", "machj">>
    /\ resp.verdict.method = "similarity"
    /\ resp.verdict.confidence = 98

\* C16: a query with the word "chon" (chọn) followed by one of the option
\* letters A, B, C, D as the student types it is blocked by the explicit layer
\* whatever the quiz content: is_blocked, confidence 1.0, method "explicit".
ChoosesOption(words) ==
    \E i \in 1..(Len(words) - 1) :
        words[i] \in {"chonj", "Chonj"} /\ words[i + 1] \in {"A", "B", "C", "D"}

C16_ChooseOptionBlocked ==
    (req.via = "guard" /\ ChoosesOption(req.text.words)) =>
        /\ resp.verdict.is_blocked
        /\ resp.verdict.confidence = 100
        /\ resp.verdict.method = "explicit"

\* C17: check_quiz_submitted(q, s) is false as long as no submit_quiz for the
\* pair (q, s) has succeeded and true ever after one has: it is false at the
\* start, a request whose submit_quiz inserts the row for (q, s) makes it
\* true, and no other request changes it.
SubmitSucceeded(q, s) ==
    /\ req'.via \in {"agent", "rest"}
    /\ req'.student_id = s
    /\ Called(calls', "submit_quiz")
    /\ env'.fail_at \notin SubmitQuizFailures
    /\ q = IF req'.via = "rest" THEN req'.quiz_id ELSE get_latest_pending_quiz(quizzes, s)

C17_Step ==
    \A q \in 1..MaxQuizzes, s \in Students :
        check_quiz_submitted(submissions', q, s)
            <=> (check_quiz_submitted(submissions, q, s) \/ SubmitSucceeded(q, s))

C17_SubmittedIffSubmitSucceeded ==
    /\ \A q \in 1..MaxQuizzes, s \in Students : ~check_quiz_submitted(submissions, q, s)
    /\ [][C17_Step]_vars

C17_Witness ==
    /\ resp.kind \in {"submitted", "http_200"}
    /\ \E q \in DOMAIN quizzes :
        /\ check_quiz_submitted(submissions, q, req.student_id)
        /\ \E s \in Students : ~check_quiz_submitted(submissions, q, s)
        /\ \E q2 \in DOMAIN quizzes : ~check_quiz_submitted(submissions, q2, req.student_id)

\* C18: a save_quiz for student s that returns id q makes q the quiz
\* get_latest_pending_quiz(s) returns, also when s already had pending quizzes;
\* it stays so through every step that neither saves for s nor calls
\* update_quiz_status for s, and steps of requests of other students never
\* change it.  For a student with no pending quiz the result is null (0), and
\* a non-null result is a pending row of that student.
Saved(p, s) ==
    /\ procs[p].pc = "l1075"
    /\ procs[p].student_id = s
    /\ procs'[p].pc = "done"
    /\ procs'[p].quiz_id # 0

StatusUpdated(p, s) ==
    /\ procs[p].pc = "l846"
    /\ procs[p].student_id = s
    /\ procs'[p].pc = "done"

C18_Step ==
    \A s \in Students :
        /\ \A p \in Procs :
            Saved(p, s)
            => /\ procs'[p].quiz_id = Len(quizzes')
               /\ Len(quizzes') = Len(quizzes) + 1
               /\ get_latest_pending_quiz(quizzes', s) = procs'[p].quiz_id
               /\ quizzes'[procs'[p].quiz_id].student_id = s
        /\ (\A p \in Procs : ~Saved(p, s) /\ ~StatusUpdated(p, s))
            => get_latest_pending_quiz(quizzes', s) = get_latest_pending_quiz(quizzes, s)
        /\ LET latest == get_latest_pending_quiz(quizzes', s) IN
           IF \A i \in DOMAIN quizzes' :
                quizzes'[i].student_id = s => quizzes'[i].status # "pending"
           THEN latest = 0
           ELSE /\ latest \in DOMAIN quizzes'
                /\ quizzes'[latest].student_id = s
                /\ quizzes'[latest].status = "pending"

AnsweredNumbers(items) ==
    {IntOf(items[i].num) : i \in {j \in DOMAIN items : items[j].dash}}

C19_TenDetailEntries ==
    (req.via = "details" /\ req.found) =>
        /\ resp.kind = "details"
        /\ Len(resp.details) = 10
        /\ \A n \in 1..10 :
            /\ resp.details[n].question_number = n
            /\ n \notin AnsweredNumbers(req.answers) => resp.details[n].student_answer = "?"
        /\ resp.correct_count + resp.incorrect_count = 10

\* C20: when the agent searches and the search gives no result (also when the
\* embedding call failed) or a best score below 0.8, the request is answered by
\* the general chat call made after the search and never with the retrieved
\* answer; the retrieved question is used for the answer exactly when the best
\* score is at least 0.8 (directly when it has an explanation, else through
\* the LLM).  A failing chat call gives the error response.
BestScore(r) ==
    LET scores == {StoreHits(r)[i].score : i \in DOMAIN StoreHits(r)}
    IN IF r = "embed_fails" \/ scores = {} THEN -1
       ELSE CHOOSE x \in scores : \A y \in scores : y <= x

C20_Step ==
    (req'.via = "agent" /\ Called(calls', "search")) =>
        LET best == BestScore(env'.search) IN
        /\ calls'[Len(calls')] \in {"search", "chat_llm"}
        /\ best < 80
            => /\ calls'[Len(calls')] = "chat_llm"
               /\ calls'[Len(calls') - 1] = "search"
               /\ resp'.kind = IF env'.chat_fails THEN "error" ELSE "chat_fallback"
        /\ best >= 80
            => /\ resp'.kind \in {"search_answer", "search_llm", "error"}
               /\ resp'.kind = "search_answer" <=> calls'[Len(calls')] = "search"
               /\ resp'.kind = "error" => env'.chat_fails
        /\ resp'.kind \in {"search_answer", "search_llm"} => best >= 80

C20_SearchFallsBackBelowThreshold == [][C20_Step]_vars

C20_Witness ==
    /\ req.via = "agent"
    /\ env.search = "s79_60"
    /\ resp.kind = "chat_fallback"
    /\ calls[Len(calls)] = "chat_llm"

\* C21: _extract_answer_key returns a key only when the pattern that wins
\* gives exactly ten well-formed (number, letter) pairs: a comment marker or a
\* labeled list with fewer or more than ten pairs gives no key from that
\* pattern, and the result is null when no pattern gives ten pairs.
KeyOfTen(items) ==
    /\ Len(items) = 10
    /\ \A i \in DOMAIN items : items[i][2] \in {"A", "B", "C", "D"}

C21_KeyHasTenPairs ==
    req.via = "extract_key" =>
        LET lines == req.markdown.lines
            marked == {lines[i].items : i \in {j \in DOMAIN lines :
                                                 lines[j].kind \in {"comment", "inline"}}}
        IN
        /\ resp.answer_key # << >> => KeyOfTen(resp.answer_key)
        /\ \A items \in marked : Len(items) # 10 => resp.answer_key # items

\* C22: every quiz row the agent saves carries a non-empty answer key: when
\* generate_quiz returns success with a null key the agent saves nothing and
\* answers with the missing-key creation error, so no submission ever meets a
\* quiz without a key.
C22_Step ==
    /\ \A i \in DOMAIN quizzes' : quizzes'[i].answer_key # << >>
    /\ resp'.kind \notin {"missing_key", "http_500_key"}
    /\ (req'.via = "agent" /\ Called(calls', "generate_quiz"))
        => LET result == generate_quiz(GenScenario(env'.gen)) IN
           (result.success /\ result.answer_key = << >>)
           => /\ resp'.kind = "no_key"
              /\ quizzes' = quizzes
              /\ ~Called(calls', "save_quiz")

C22_SavedQuizHasKey == [][C22_Step]_vars

C22_Witness ==
    /\ req.via = "agent"
    /\ env.gen = "nokey"
    /\ resp.kind = "no_key"
    /\ calls[Len(calls)] = "generate_quiz"

\* C23: when an LLM call made by generate_quiz raises (the first call, the
\* retry for a missing key or the retry for a bad format), the agent answers
\* with the generation error and saves no quiz row: the quizzes table and every
\* student's pending quiz are as before.
LLMCallRaised(g) ==
    LET replies == GenScenario(g)
    IN \E k \in 1..generate_quiz(replies).llm_calls : replies[k].raises

C23_Step ==
    (req'.via = "agent" /\ Called(calls', "generate_quiz") /\ LLMCallRaised(env'.gen))
        => /\ resp'.kind = "generate_failed"
           /\ ~Called(calls', "save_quiz")
           /\ quizzes' = quizzes
           /\ submissions' = submissions
           /\ \A s \in Students :
                get_latest_pending_quiz(quizzes', s) = get_latest_pending_quiz(quizzes, s)

C23_GeneratorFailureSavesNothing == [][C23_Step]_vars

C23_Witness ==
    /\ req.via = "agent"
    /\ env.gen = "format_fail"
    /\ resp.kind = "generate_failed"
    /\ Len(quizzes) >= 1

\* C27: when generate_quiz returns success with a non-null answer key, the key
\* is the one extracted from the quiz content it returns, also when the format
\* retry replaced the content generated first.
C27_KeyBelongsToContent ==
    (req.via = "generate" /\ resp.kind = "generated" /\ resp.answer_key # << >>)
        => resp.answer_key = _extract_answer_key(resp.quiz_markdown)

\* C25: in every response of the agent final_query is the raw user input,
\* except for a request with an image whose text extraction gave a non-empty
\* text: then final_query is the extracted text, and the step that answers the
\* request (submission, view, create refusal, guard, creation, graph, search,
\* chat) is the one the extracted text selects, not the raw input.
ProcessedText(m) ==
    IF m <= Len(Messages) THEN m
    ELSE LET r == ImageRequests[m - Len(Messages)]
         IN IF ~r.image.raises /\ r.image.text # 0 THEN r.image.text ELSE r.user_query

C25_Step ==
    req'.via = "agent" =>
        LET processed == ProcessedText(req'.msg) IN
        /\ resp'.final_query = processed
        /\ StepTaken(resp', calls')
            = FirstMatchingStep(quizzes, req'.student_id, Messages[processed], env'.guard_llm)

C25_FinalQueryIsProcessedText == [][C25_Step]_vars

C25_Witness ==
    /\ req.via = "agent"
    /\ req.msg \in ImageIds
    /\ ImageRequests[req.msg - Len(Messages)].user_query = 10
    /\ resp.final_query = 1
    /\ resp.kind = "submitted"

\* C24: when submit_quiz fails internally (before or at the INSERT, or at the
\* commit) it raises nothing: the agent answers with the submission error of
\* line 844, not with the exception handler of line 911; the submissions table
\* has no new row, no quiz changes, and the student's quiz is still pending and
\* not submitted, so the same submission can be sent again.
C24_Step ==
    (req'.via = "agent" /\ env'.fail_at \in SubmitQuizFailures)
        => LET s == req'.student_id
               pending == get_latest_pending_quiz(quizzes, s)
           IN /\ resp'.kind = "submit_failed"
              /\ submissions' = submissions
              /\ quizzes' = quizzes
              /\ pending # 0
              /\ get_latest_pending_quiz(quizzes', s) = pending
              /\ ~check_quiz_submitted(submissions', pending, s)

C24_FailedSubmitLeavesNoRow == [][C24_Step]_vars

C24_Witness ==
    /\ req.via = "agent"
    /\ env.fail_at = "commit"
    /\ resp.kind = "submit_failed"
    /\ get_latest_pending_quiz(quizzes, req.student_id) # 0
    /\ ~check_quiz_submitted(submissions, get_latest_pending_quiz(quizzes, req.student_id),
                             req.student_id)

\* C26: the notification thread is started only in a request whose Submission
\* row is in the table and whose quiz is marked completed; the response of
\* that request can be produced and returned while the thread is running; and
\* whatever the notification does (a reply, an error, a timeout) no quiz and no
\* submission changes and the handler's state and response stay as they are.
ThreadStarts == procs[Notifier].pc = "idle" /\ procs'[Notifier].pc = "call_daily"

C26_Step ==
    /\ ThreadStarts =>
          LET h == procs[Handler] IN
          /\ quizzes[h.pending].status = "completed"
          /\ check_quiz_submitted(submissions, h.pending, h.student_id)
          /\ quizzes' = quizzes
          /\ submissions' = submissions
    /\ (procs[Notifier].pc # "idle" /\ procs'[Notifier] # procs[Notifier]) =>
          /\ quizzes' = quizzes
          /\ submissions' = submissions
          /\ procs'[Handler] = procs[Handler]

C26_NoWait ==
    /\ procs[Handler].pc = "l864" => ENABLED Notify_l864
    /\ procs[Handler].pc = "done" => ENABLED ConcReturn(Handler)

C26_NotificationAfterCommitAndDetached == [][C26_Step]_vars /\ []C26_NoWait

\* the response has been returned and the thread has not made its call yet
C26_Witness ==
    /\ procs[Handler].pc = "idle"
    /\ procs[Notifier].pc = "call_daily"
    /\ \E q \in DOMAIN quizzes :
        /\ quizzes[q].status = "completed"
        /\ check_quiz_submitted(submissions, q, procs[Notifier].student_id)

\* C28: a message with none of the submission keywords is taken as a
\* submission only if it has a run of at least ten number-letter pairs; with
\* fewer than ten pairs and no keyword it is not routed to the submission flow.
HasSubmissionKeyword(text) == ContainsAny(LowerWords(text.words), submission_keywords)

C28_PatternNeedsTenPairs ==
    (req.via = "intent" /\ ~HasSubmissionKeyword(req.text))
        => (resp.kind = "submission_flow" <=> Len(req.text.pairs) >= RequiredAnswers)

\* C29: no permanent lockout.  Whenever a student has a pending quiz (also
\* when a Submission row for it was inserted and the status update did not
\* happen) and keeps sending a well-formed ten-answer submission that is
\* served with no failure of a collaborator, the student eventually has no
\* pending quiz, and so may create a new one.
\* a request of s with message 1 (Nopj baif: 1-A,...,10-B) in which no call failed
ServedSubmission(s) ==
    /\ req.via = "agent"
    /\ req.student_id = s
    /\ req.msg = 1
    /\ env.fail_at \in {"-", "none"}

C29_NoPermanentLockout ==
    \A s \in Students :
        ([]<>ServedSubmission(s))
            => ((get_latest_pending_quiz(quizzes, s) # 0)
                    ~> (get_latest_pending_quiz(quizzes, s) = 0))

\* C30: for every successful submission through the agent the score stored
\* and reported is the number of questions the detailed breakdown marks
\* correct, on the 10-point scale (score in hundredths = 100 * correct_count),
\* for every answer string the agent accepts and every answer key.
C30_ScoreIsCorrectCount ==
    (req.via = "report" /\ resp.kind = "submitted")
        => resp.score = 100 * resp.correct_count

\* C31: whenever the agent answers a create-quiz request with the success
\* response that shows the quiz, the request has added a quiz row of that
\* student with status pending, which is the student's pending quiz
\* afterwards - also when save_quiz raised.
C31_Step ==
    (req'.via = "agent" /\ resp'.kind = "created")
        => LET s == req'.student_id
               latest == get_latest_pending_quiz(quizzes', s)
           IN /\ Len(quizzes') = Len(quizzes) + 1
              /\ latest = Len(quizzes')
              /\ quizzes'[latest].student_id = s
              /\ quizzes'[latest].status = "pending"

C31_CreatedResponseHasQuizRow == [][C31_Step]_vars

\* C32: the responses a student gets before submitting (the creation response
\* and the view response) do not depend on the answer key: for two quizzes
\* that differ only in their key they are the same, and they hold no
\* answer-key line.
HoldsKeyLine(response) ==
    \E i \in DOMAIN response.shown : response.shown[i].kind \in {"comment", "inline"}

C32_ResponsesHideAnswerKey ==
    req.via = "show" =>
        /\ resp.first = resp.second
        /\ \A i \in DOMAIN resp.first : ~HoldsKeyLine(resp.first[i])

\* C33: generate_quiz makes the first LLM call, one more when the first reply
\* has no answer key, and one more when the content then fails validation: at
\* most three calls.  It always returns: the failure result when a call it
\* made raised, otherwise success - with the reply of the format retry as
\* content whether or not that reply passes validation.
C33_AtMostThreeCallsThenResult ==
    req.via = "generate" =>
        LET replies == req.replies
            key_retry == ~replies[1].raises /\ _extract_answer_key(replies[1].content) = << >>
            n == IF key_retry THEN 2 ELSE 1
            format_retry ==
                /\ \A k \in 1..n : ~replies[k].raises
                /\ ~_validate_quiz(replies[n].content, RequiredAnswers)
            made == n + (IF format_retry THEN 1 ELSE 0)
        IN
        /\ resp.llm_calls = made
        /\ made <= 3
        /\ resp.kind \in {"generated", "generate_failed"}
        /\ resp.kind = "generated" <=> \A k \in 1..made : ~replies[k].raises
        /\ (format_retry /\ ~replies[made].raises) => resp.quiz_markdown = replies[made].content

C33_Witness ==
    /\ req.via = "generate"
    /\ resp.llm_calls = 3
    /\ resp.kind = "generated"
    /\ ~_validate_quiz(resp.quiz_markdown, RequiredAnswers)

\* C34: is_cheating runs its layers in the order explicit pattern, similarity,
\* LLM and the first decisive layer gives the result: a later layer runs only
\* when the ones before it found nothing, so the LLM is called only when no
\* explicit pattern matched and no question of the quiz is similar above 0.6.
C34_LayersShortCircuit ==
    req.via = "guard" =>
        LET explicit == _has_explicit_cheating(req.text)
            similar == SimilarityBlocks(req.text, req.quiz)
            n == Len(calls)
        IN
        /\ calls = SubSeq(<<"explicit", "similarity", "llm">>, 1, n)
        /\ n >= 1
        /\ n >= 2 <=> ~explicit
        /\ n = 3 <=> (~explicit /\ ~similar)
        /\ resp.verdict.method =
              (IF n = 1 THEN "explicit"
               ELSE IF n = 2 THEN "similarity"
               ELSE IF env.guard_llm = "error" THEN "error" ELSE "llm")
        /\ n < 3 => (resp.verdict.is_blocked /\ env.guard_llm = "-")

C34_Witness ==
    /\ req.via = "guard"
    /\ calls = <<"explicit", "similarity", "llm">>
    /\ resp.verdict.method = "llm"
    /\ ~resp.verdict.is_blocked
    /\ _extract_all_questions(req.quiz.content) # << >>

\* earlier calls on the instance with the same quiz id and the same query
EarlierSame(j) ==
    {i \in 1..(j - 1) : calls[i].quiz = calls[j].quiz /\ calls[i].text = calls[j].text}

\* the ones among them whose LLM call completed without error
EarlierClassified(j) == {i \in EarlierSame(j) : calls[i].called /\ calls[i].llm # "error"}

\* C35: once a classification of a (quiz id, query) pair completed without
\* error, every later call for the same pair returns that result and makes no
\* LLM call; a pair never classified before gets its own LLM call, whatever
\* was cached for other quizzes or other queries.
C35_CachedPerQuizAndQuery ==
    req.via = "classify" =>
        \A j \in DOMAIN calls :
            /\ EarlierClassified(j) # {} =>
                  /\ ~calls[j].called
                  /\ \A i \in EarlierClassified(j) : calls[j].result = calls[i].result
            /\ EarlierSame(j) = {} =>
                  /\ calls[j].called
                  /\ calls[j].result = _llm_classify(calls[j].llm)

C35_Witness ==
    /\ req.via = "classify"
    /\ \E j \in DOMAIN calls :
        /\ EarlierClassified(j) # {}
        /\ ~calls[j].called
        /\ \E i \in 1..(j - 1) : calls[i].quiz # calls[j].quiz /\ calls[i].text = calls[j].text
                                    /\ calls[i].result # calls[j].result

\* C36: the fail-closed result of an LLM error is not cached: while every
\* earlier call for a (quiz id, query) pair ended in an LLM error, the next
\* call for that pair calls the LLM again and returns what the LLM says now.
C36_ErrorResultNotCached ==
    req.via = "classify" =>
        \A j \in DOMAIN calls :
            (EarlierSame(j) # {} /\ \A i \in EarlierSame(j) : calls[i].llm = "error")
                => /\ calls[j].called
                   /\ calls[j].result = _llm_classify(calls[j].llm)

C36_Witness ==
    /\ req.via = "classify"
    /\ \E j \in DOMAIN calls :
        /\ EarlierSame(j) # {}
        /\ \A i \in EarlierSame(j) : calls[i].result.method = "error"
        /\ calls[j].called
        /\ ~calls[j].result.is_blocked

\* C37: the search decision follows a priority order.  A query that holds all
\* of the option markers A., B. and C. (in either case, white space between
\* the letter and the dot not counting) is searched, also when it holds a
\* blacklisted keyword; any other query that holds a blacklisted keyword goes
\* to general chat and no search is made; every remaining query is searched.
NextVisible(cs, i) ==
    LET later == {j \in (i + 1)..Len(cs) : cs[j] \notin {" ", "\n"}}
    IN IF later = {} THEN 0 ELSE CHOOSE j \in later : \A k \in later : j <= k

ShowsMarker(cs, letter) ==
    \E i \in DOMAIN cs :
        /\ Lower(cs[i]) = Lower(letter)
        /\ NextVisible(cs, i) # 0
        /\ cs[NextVisible(cs, i)] = "."

ShowsOptions(text) ==
    \A letter \in {"A", "B", "C"} : ShowsMarker(QueryChars(text.words), letter)

ShowsBlacklisted(text) ==
    LET cs == QueryChars(text.words) IN
    \E keyword \in blacklist : \E i \in DOMAIN cs :
        /\ i + Len(QueryChars(keyword)) - 1 <= Len(cs)
        /\ \A k \in DOMAIN QueryChars(keyword) :
               Lower(cs[i + k - 1]) = QueryChars(keyword)[k]

C37_SearchDecisionPriority ==
    req.via = "search_decision" =>
        /\ ShowsOptions(req.text) => Called(calls, "search")
        /\ (~ShowsOptions(req.text) /\ ShowsBlacklisted(req.text))
              => (~Called(calls, "search") /\ resp.kind = "chat")
        /\ (~ShowsOptions(req.text) /\ ~ShowsBlacklisted(req.text))
              => Called(calls, "search")

C37_Witness ==
    /\ req.via = "search_decision"
    /\ ShowsOptions(req.text)
    /\ ShowsBlacklisted(req.text)
    /\ Called(calls, "search")
    /\ resp.kind = "search"

\* C38: the daily count of a Submission is 1 + the number of Submissions the
\* same student made before it on the same calendar day: the k-th successful
\* submission of a student within one day has daily count k, whatever the
\* time of day.  The calendar day is taken in the server's time zone or in
\* UTC, whichever makes the statement true.
DayIn(row, zone) == (row.submitted_at.date * 24 + row.submitted_at.time + zone) \div 24

OrdinalOfDay(i, zone) ==
    1 + Cardinality({j \in 1..(i - 1) :
                        /\ submissions[j].student_id = submissions[i].student_id
                        /\ DayIn(submissions[j], zone) = DayIn(submissions[i], zone)})

C38_DailyCountIsOrdinalOfDay ==
    \/ \A i \in DOMAIN submissions :
            submissions[i].daily_count = OrdinalOfDay(i, env.utc_offset)
    \/ \A i \in DOMAIN submissions :
            submissions[i].daily_count = OrdinalOfDay(i, 0)

\* C39: the duration stored with a Submission is never negative and is the
\* elapsed time between the creation of the quiz and the submission in
\* minutes, rounded up: an elapsed time strictly between 0 and 60 seconds
\* gives 1, one strictly between 60 and 120 seconds gives 2.  The elapsed time
\* is counted from the instant of the creation or from the created_at stored
\* for it, whichever makes the statement true.
CeilingMinutes(parts) == (parts + 60 * SecondParts - 1) \div (60 * SecondParts)

C39_DurationIsCeilingOfMinutes ==
    (req.via = "duration" /\ req.row.found) =>
        /\ resp.duration >= 0
        /\ req.now > req.created =>
              \/ resp.duration = CeilingMinutes(req.now - req.created)
              \/ resp.duration = CeilingMinutes(req.now - req.row.created_at)

====
